---- MODULE Spec2Model ----
(***************************************************************************)
(* Model of the container execution engine of the code-interpreter         *)
(* service: app/services/docker_executor.py (DockerExecutor.execute, the   *)
(* directory snapshotter and differ, the exec stream demultiplexer) and    *)
(* the part of app/services/database.py that execute calls.                *)
(*                                                                         *)
(* One execute call is one process.  Its steps are the await points of the *)
(* coroutine: between two awaits asyncio runs the coroutine alone, so the  *)
(* code between them is one atomic action.                                 *)
(***************************************************************************)
EXTENDS Integers, Sequences, FiniteSets, TLC

\* ------------------------------------------------------------------ bounds
NumExecs == 3                  \* execute calls submitted concurrently
MAX_CONCURRENT_CONTAINERS == 2 \* settings.MAX_CONCURRENT_CONTAINERS of the run
MaxPolls == 1                  \* container.show() polls that loop again
MaxOps == 2                    \* file operations of the interpreters of a behaviour
MaxRuns == 2                   \* sequential execute calls of one session
NumClients == 2                \* concurrent callers of the metadata store
MaxFiles == 2                  \* records the callers of the store upsert
MaxTime == 2                   \* ticks of the wall clock in the store behaviours
MaxAge == 1                    \* max_age_hours of cleanup_old_files, in ticks
NumReqs == 3                   \* HTTP requests of a behaviour of the request layer
MaxRefs == 2                   \* file references an execute request carries
MaxText == 2                   \* characters of an output the hint is applied to
MaxMtime == 2                  \* modification times of the snapshots handed to the differ
MaxPayload == 1                \* payload bytes of a frame handed to the demultiplexer
MaxFrames == 2                 \* complete frames of a buffer handed to the demultiplexer
MaxQuarters == 8               \* quarters of an hour of the ages handed to the reaper
MaxCalls == 5                  \* calls of start and stop of the cleanup service
MaxSweeps == 2                 \* calls of cleanup_files one task of the cleanup loop makes

Execs == 1..NumExecs
SeqExecs == {1}
None == "None"

\* ------------------------------------------------------------ configuration
Langs == {"py", "r"}

LANGUAGE_CONTAINERS(l) ==
    IF l = "py" THEN "jupyter/scipy-notebook:latest" ELSE "jupyter/r-notebook:latest"

Images == {LANGUAGE_CONTAINERS(l) : l \in Langs}

Sessions == {"s1"}

\* ------------------------------------------------------------- file system
\* A relative path under the session directory: its directory part, and
\* the file name split at its last dot (ext = "" when there is none).
Paths ==
    { [dir |-> <<>>, stem |-> "a", ext |-> "txt"],
      [dir |-> <<>>, stem |-> "b", ext |-> "lock"],
      [dir |-> <<>>, stem |-> "out", ext |-> ""] }

\* File contents are byte strings; the empty one is the zero-byte file.
Contents == { <<>>, <<1>>, <<2>> }

NoFile == [exists |-> FALSE]

File(c, t) == [exists |-> TRUE, content |-> c, mtime |-> t]

EmptyDir == [p \in Paths |-> NoFile]

\* Path(rel_path).name
Basename(p) == [stem |-> p.stem, ext |-> p.ext]

\* filename.endswith(".lock")
EndsWithLock(p) == p.ext = "lock"

\* hashlib.md5(bytes).hexdigest(): a digest of the bytes, free of collisions
\* on the contents of the model.
RECURSIVE Md5(_)
Md5(c) == IF c = <<>> THEN 5 ELSE (31 * Md5(Tail(c)) + Head(c) + 7) % 9973

\* hashlib.md5(str(mtime).encode()).hexdigest()
Etag(t) == Md5(<<t>>)

\* mimetypes.guess_type(name)[0]: by extension, None when it is unknown.
GuessType(p) == IF p.ext = "txt" THEN "text/plain" ELSE None

FileState(f) == [size |-> Len(f.content), mtime |-> f.mtime, md5_hash |-> Md5(f.content)]

\* _scan_directory: every file below the directory but the *.lock ones.
ScanDirectory(d) ==
    [p \in {q \in Paths : d[q].exists /\ ~EndsWithLock(q)} |-> FileState(d[p])]

\* A differ that compares size and mtime and never the hash.
SizeOrMtimeChanged(b, a) ==
    \/ b.size # a.size
    \/ b.mtime # a.mtime

\* Lines 170-184: the comparison of the two states of one path.
ChangedState(b, a) ==
    \/ b.size # a.size
    \/ b.md5_hash # a.md5_hash
    \/ b.mtime # a.mtime

\* A differ that reports the paths that went away too.
ChangedOrDeleted(before, after) ==
    {p \in DOMAIN after : p \notin DOMAIN before \/ ChangedState(before[p], after[p])}
        \cup (DOMAIN before \ DOMAIN after)

\* _find_changed_files
FindChangedFiles(before, after) ==
    {p \in DOMAIN after : p \notin DOMAIN before \/ ChangedState(before[p], after[p])}

\* ----------------------------------------------------- stream demultiplexer
\* The length of a frame read with the low byte first.
LittleEndianSize(raw, i) ==
    raw[i + 5] + raw[i + 6] * 256 + raw[i + 7] * 65536 + raw[i + 8] * 16777216

\* int.from_bytes(raw[i+4 : i+8], byteorder="big"), i counted from 0
FrameSize(raw, i) ==
    raw[i + 5] * 16777216 + raw[i + 6] * 65536 + raw[i + 7] * 256 + raw[i + 8]

\* The loop of _clean_output: the payloads of the complete frames from offset i.
RECURSIVE FramePayloads(_, _)
FramePayloads(raw, i) ==
    IF i + 8 > Len(raw) THEN <<>>
    ELSE IF i + 8 + FrameSize(raw, i) > Len(raw) THEN <<>>
    ELSE SubSeq(raw, i + 9, i + 8 + FrameSize(raw, i))
             \o FramePayloads(raw, i + 8 + FrameSize(raw, i))

\* bytes.decode("utf-8") of one- and two-byte sequences; anything else is
\* a UnicodeDecodeError.
RECURSIVE Utf8Valid(_)
Utf8Valid(bs) ==
    IF bs = <<>> THEN TRUE
    ELSE IF Head(bs) < 128 THEN Utf8Valid(Tail(bs))
    ELSE IF Head(bs) >= 194 /\ Head(bs) < 224 /\ Len(bs) >= 2
            /\ bs[2] >= 128 /\ bs[2] < 192
         THEN Utf8Valid(SubSeq(bs, 3, Len(bs)))
    ELSE FALSE

RECURSIVE Utf8Decode(_)
Utf8Decode(bs) ==
    IF bs = <<>> THEN <<>>
    ELSE IF Head(bs) < 128 THEN <<Head(bs)>> \o Utf8Decode(Tail(bs))
    ELSE <<(Head(bs) - 192) * 64 + (bs[2] - 128)>> \o Utf8Decode(SubSeq(bs, 3, Len(bs)))

\* str.isspace() on the code points below 256
IsSpace(c) == c \in {9, 10, 11, 12, 13, 28, 29, 30, 31, 32, 133, 160}

RECURSIVE LStrip(_)
LStrip(cs) == IF cs # <<>> /\ IsSpace(Head(cs)) THEN LStrip(Tail(cs)) ELSE cs

RECURSIVE RStrip(_)
RStrip(cs) ==
    IF cs # <<>> /\ IsSpace(cs[Len(cs)]) THEN RStrip(SubSeq(cs, 1, Len(cs) - 1)) ELSE cs

\* str.strip()
Strip(cs) == RStrip(LStrip(cs))

\* _clean_output raises when the payload bytes are not UTF-8
CleanOutputRaises(raw) == ~Utf8Valid(FramePayloads(raw, 0))

\* _clean_output
CleanOutput(raw) == Strip(Utf8Decode(FramePayloads(raw, 0)))

\* One frame of the exec stream: stream kind, three zero bytes, the length, the payload.
Frame(kind, payload) == <<kind, 0, 0, 0, 0, 0, 0, Len(payload)>> \o payload

\* What an exec of the model writes to its attached stream.
RawOutputs ==
    { <<>>,
      Frame(1, <<104, 105, 10>>),
      Frame(1, <<255>>) }

\* ------------------------------------------------------------------ results
\* A string of the result: a literal of the source with the values formatted
\* into it, or decoded output.
Text(cs) == [lit |-> "", arg |-> <<>>, chars |-> cs]

Lit(s, a) == [lit |-> s, arg |-> a, chars |-> <<>>]

EmptyString == Text(<<>>)

NoResult ==
    [stdout |-> EmptyString, stderr |-> EmptyString, status |-> "none",
     files |-> <<>>, metrics |-> FALSE]

\* The result of both except clauses of execute.
GenericError ==
    [stdout |-> EmptyString,
     stderr |-> Lit("Failed to execute code. Please try again.", <<>>),
     status |-> "error", files |-> <<>>, metrics |-> FALSE]

\* str(pull_error) of the exceptions images.pull raises in the model
PullErrors == {"pull access denied", "connection refused"}

\* A pull failure reported without the image and the cause.
PullFailedUnnamed(image, pull_error) ==
    [stdout |-> EmptyString,
     stderr |-> Lit("Failed to pull required Docker image", <<>>),
     status |-> "error", files |-> <<>>, metrics |-> FALSE]

\* Lines 342-348: the result of a failed pull.
PullFailed(image, pull_error) ==
    [stdout |-> EmptyString,
     stderr |-> Lit("Failed to pull required Docker image: {image_name}. Error: {str(pull_error)}",
                    <<image, pull_error>>),
     status |-> "error", files |-> <<>>, metrics |-> FALSE]

\* A result of a failed interpreter that keeps the output under stdout.
OutputInStdout(output_text) ==
    [stdout |-> Text(output_text), stderr |-> EmptyString,
     status |-> "error", files |-> <<>>, metrics |-> FALSE]

\* Lines 447-448: the result of an interpreter that exited non-zero.
NonZeroResult(output_text) ==
    [stdout |-> EmptyString, stderr |-> Text(output_text),
     status |-> "error", files |-> <<>>, metrics |-> FALSE]

\* A result of a successful call that lacks the metrics.
OkWithoutMetrics(output_text, output_files) ==
    [stdout |-> Text(output_text), stderr |-> EmptyString,
     status |-> "ok", files |-> output_files, metrics |-> FALSE]

\* Lines 497-509: the result of a successful call.
OkResult(output_text, output_files) ==
    [stdout |-> Text(output_text), stderr |-> EmptyString,
     status |-> "ok", files |-> output_files, metrics |-> TRUE]

\* -------------------------------------------------------------------- state
VARIABLES
    pc,               \* where each execute call stands
    lang,             \* its lang argument
    session,          \* its session_id argument
    runs,             \* how many calls this caller has made (names its container)
    docker,           \* self._docker: "None" or "Open"
    semValue,         \* free permits of self._container_semaphore
    imagePullLocks,   \* self._image_pull_locks: image -> the lock objects stored (none or one)
    lockedLocks,      \* the lock objects that are held
    myLock,           \* the lock object a call took from the map
    imagesPresent,    \* runtime: images present locally
    containers,       \* runtime: containers that exist
    hasContainer,     \* the local variable container is not None
    activeContainers, \* the keys of self._active_containers
    polls,            \* iterations of the wait-for-running loop
    before,           \* before_file_states
    captured,         \* output: the bytes read from the interpreter exec
    observedExit,     \* exec_inspect["ExitCode"] once read (-1: not read)
    outputText,       \* output_text
    todo,             \* changed_file_paths still to register
    outFiles,         \* output_files
    ret,              \* the value of the return statement the finally block runs under
    result,           \* what execute returned to its caller
    fs,               \* the upload directory: session -> path -> file
    clock,            \* time of the file system
    dbFiles,          \* rows of the files table
    nextFileId,       \* generate_id(): the ids handed out so far
    interp,           \* the interpreter runs of this behaviour: their outputs and exit codes
    fs0,              \* history: the session directory when the call was made
    oplog,            \* history: the file operations of the call's interpreter
    pullError,        \* history: str() of the exception the call's images.pull raised
    returnedFiles,    \* history: session and id of the files successful calls returned
    trace,            \* history: what each call did so far, in the order it did it
    logged,           \* the events a behaviour keeps in its histories
    orphans,          \* history: the files the calls that returned an error had written
    samplers,         \* ids of the containers whose _update_container_metrics task is pending
    usage,            \* ids of the metrics entries whose usage fields the sampler has written
    client,           \* the call each caller of the metadata store is in
    written,          \* history: per key, when its row was inserted and last written
    disk,             \* the file paths of the store's records that exist under the upload path
    cleanup_task,     \* CleanupService._cleanup_task: NoTask or the loop task start created
    running,          \* CleanupService._running
    loops,            \* per task of _cleanup_loop, where it is and whether cancel() was called
    lifespan,         \* the caller of start and stop: its position and the calls it made
    reply,            \* history: the call of the store that returned last, and its answer
    req,              \* the HTTP requests: what was sent, where the handler is, the answer
    nextSession,      \* generate_id(): the session ids handed out so far
    uploads,          \* the files under the upload directory of the generated sessions
    hint,             \* an engine result on its way through lines 108-115 of the route
    call              \* a call of a pure function of the engine: its arguments, its value

vars ==
    <<pc, lang, session, runs, docker, semValue, imagePullLocks, lockedLocks, myLock,
      imagesPresent, containers, hasContainer, activeContainers, polls, before, captured,
      observedExit, outputText, todo, outFiles, ret, result, fs, clock, dbFiles,
      nextFileId, interp, fs0, oplog, pullError, returnedFiles, orphans, trace, logged,
      samplers, usage,
      client,
      written, disk, cleanup_task, running, loops, lifespan,
      reply, req, nextSession, uploads, hint, call>>

inputVars == <<lang, session, runs, interp, fs0, logged>>
lockVars == <<imagePullLocks, lockedLocks, myLock>>
fileVars == <<fs, clock, dbFiles, nextFileId, oplog, returnedFiles, orphans>>
execVars == <<captured, observedExit, outputText, todo, outFiles, pullError>>
storeVars == <<client, written, disk, reply>>
apiVars == <<req, nextSession, uploads, hint, call>>
metricVars == <<samplers, usage>>
cleanupVars == <<cleanup_task, running, loops, lifespan>>
serviceVars == <<storeVars, apiVars>>
engineVars ==
    <<pc, ret, result, semValue, inputVars, docker, lockVars, imagesPresent, containers,
      hasContainer, activeContainers, polls, before, execVars, trace, metricVars,
      cleanupVars>>

ImageOf(e) == LANGUAGE_CONTAINERS(lang[e])

\* container.id of the container the call creates
ContainerId(e) == [exec |-> e, run |-> runs[e]]

\* Exit codes of the interpreter exec in the model.
ExitCodes == {0, 1}

\* The interpreter runs a behaviour draws from: runs that print nothing and
\* exit 0, or runs with any output and exit code of the model.
QuietRuns == [outputs |-> {<<>>}, exits |-> {0}]

AnyRuns == [outputs |-> RawOutputs, exits |-> ExitCodes]

\* The events of the image coordinator, lines 313-348.
PullEvents == {"image_absent", "image_rechecked", "pull_issued", "pulled", "pull_failed"}

\* The events of a call of execute.
Events ==
    PullEvents \cup
    {"probe_failed", "client_closed", "client_opened", "open_failed", "pre_snapshot",
     "permit_acquired", "image_check", "image_found", "container_created",
     "container_start", "running", "start_deadline", "chown_ok", "chown_nonzero",
     "chown_failed", "interpreter_start", "output_read", "interpreter_exit",
     "post_snapshot", "metadata_write", "exception", "teardown", "teardown_failed",
     "permit_released", "response"}

\* The callers of the metadata store, its sessions and its keys.
StoreClients == 1..NumClients

StoreSessions == {"s1", "s2"}

StoreNames == {Basename(p) : p \in {q \in Paths : ~EndsWithLock(q)}}

StoreKeys == [session_id : StoreSessions, filename : StoreNames]

NoData == [id |-> 0]

NeverWritten == [first |-> -1, last |-> -1]

\* A caller that is in no call of the store.
Idle ==
    [pc |-> "idle", data |-> NoData, existing |-> FALSE, cutoff |-> 0, to_delete |-> {}]

\* No call of the store has returned.
NoReply ==
    [op |-> "none", data |-> NoData, session_id |-> "", file_id |-> 0, stale |-> FALSE,
     rows |-> {}, removed |-> {}, value |-> {}, unlinked |-> {}, deleted |-> FALSE,
     raised |-> None]

\* The tasks start can create, and a task that was not created.
TaskIds == 1..MaxCalls

NoLoop == [pc |-> "none", cancelled |-> FALSE, sweeps |-> 0]

\* _cleanup_task is None.
NoTask == 0

\* The HTTP requests of a behaviour.
Reqs == 1..NumReqs

\* generate_id(): the ids it returns, in the order it returns them. Two
\* calls never return the same id.
GeneratedIds == [n \in 1..NumReqs |-> <<"g", n>>]

NoSession == <<>>

\* A request that has not been sent.
NoRequest ==
    [pc |-> "new", route |-> "none", lang |-> "", files |-> <<>>, next |-> 0,
     session_id |-> NoSession, found |-> <<>>, filename |-> None, content |-> <<>>,
     file_id |-> 0, status_code |-> 0, raised |-> None, invoked |-> FALSE,
     fresh |-> FALSE, empty |-> FALSE, run |-> NoResult]

\* No call of a pure function.
NoCall == [pc |-> "none", op |-> "none"]

\* No engine result in the route.
NoHint == [pc |-> "none", lang |-> "", result |-> NoResult, run |-> NoResult]

\* DockerExecutor.__init__, no image pulled yet, and the empty upload
\* directory and files table
InitAll ==
    /\ pc = [e \in Execs |-> "start"]
    /\ lang = [e \in Execs |-> IF e < NumExecs THEN "py" ELSE "r"]
    /\ session \in [Execs -> Sessions]
    /\ runs = [e \in Execs |-> 1]
    /\ docker = None
    /\ semValue = MAX_CONCURRENT_CONTAINERS
    /\ imagePullLocks = [i \in Images |-> {}]
    /\ lockedLocks = {}
    /\ myLock = [e \in Execs |-> e]
    /\ imagesPresent = {}
    /\ containers = {}
    /\ hasContainer = [e \in Execs |-> FALSE]
    /\ activeContainers = {}
    /\ samplers = {}
    /\ usage = {}
    /\ polls = [e \in Execs |-> 0]
    /\ before = [e \in Execs |-> <<>>]
    /\ captured = [e \in Execs |-> <<>>]
    /\ observedExit = [e \in Execs |-> -1]
    /\ outputText = [e \in Execs |-> <<>>]
    /\ todo = [e \in Execs |-> {}]
    /\ outFiles = [e \in Execs |-> <<>>]
    /\ ret = [e \in Execs |-> NoResult]
    /\ result = [e \in Execs |-> NoResult]
    /\ fs = [s \in Sessions |-> EmptyDir]
    /\ clock = 0
    /\ dbFiles = {}
    /\ nextFileId = 0
    /\ interp \in {QuietRuns, AnyRuns}
    /\ fs0 = [e \in Execs |-> EmptyDir]
    /\ oplog = [e \in Execs |-> <<>>]
    /\ pullError = [e \in Execs |-> None]
    /\ returnedFiles = {}
    /\ orphans = {}
    /\ trace = [e \in Execs |-> <<>>]
    /\ client = [c \in StoreClients |-> Idle]
    /\ written = [k \in StoreKeys |-> NeverWritten]
    /\ disk = {}
    /\ cleanup_task = NoTask
    /\ running = FALSE
    /\ loops = [t \in TaskIds |-> NoLoop]
    /\ lifespan = [pc |-> "idle", calls |-> 0, last |-> "none"]
    /\ reply = NoReply
    /\ req = [r \in Reqs |-> NoRequest]
    /\ nextSession = 0
    /\ uploads = {}

\* ------------------------------------------------------------- control flow
\* The call goes on to its next await.
Continue(e, label) ==
    /\ pc' = [pc EXCEPT ![e] = label]
    /\ UNCHANGED <<ret, result, semValue>>

\* The call stays where it is.
Stay == UNCHANGED <<pc, ret, result, semValue>>

\* Nothing catches the exception: it leaves execute.
Propagate(e) ==
    /\ pc' = [pc EXCEPT ![e] = "raised"]
    /\ UNCHANGED <<ret, result, semValue>>

\* What the step of a call adds to its history: the events of the step and,
\* when the step gave the permit back or handed the result to the caller,
\* that.
Log(e, events) ==
    LET step == events
                  \o (IF semValue' = semValue + 1 THEN <<"permit_released">> ELSE <<>>)
                  \o (IF pc'[e] = "returned" THEN <<"response">> ELSE <<>>)
        Kept(ev) == ev \in logged
    IN trace' = [trace EXCEPT ![e] = @ \o SelectSeq(step, Kept)]

\* "except Exception" of the outermost try (lines 530-537): the generic
\* result is returned; the semaphore is not held there.
OuterExcept(e) ==
    /\ pc' = [pc EXCEPT ![e] = "returned"]
    /\ result' = [result EXCEPT ![e] = GenericError]
    /\ UNCHANGED <<ret, semValue>>

\* A return that leaves the semaphore before the finally block has run.
ReleaseAtReturn(e, value) ==
    /\ ret' = [ret EXCEPT ![e] = value]
    /\ semValue' = semValue + 1
    /\ IF hasContainer[e]
       THEN /\ pc' = [pc EXCEPT ![e] = "finally"]
            /\ UNCHANGED result
       ELSE /\ pc' = [pc EXCEPT ![e] = "returned"]
            /\ result' = [result EXCEPT ![e] = value]

\* A return statement inside the inner try (lines 307-528).  The finally
\* block awaits container.delete when a container was created; without one
\* it awaits nothing, the semaphore is released and the caller has the value.
Return(e, value) ==
    /\ ret' = [ret EXCEPT ![e] = value]
    /\ IF hasContainer[e]
       THEN /\ pc' = [pc EXCEPT ![e] = "finally"]
            /\ UNCHANGED <<result, semValue>>
       ELSE /\ pc' = [pc EXCEPT ![e] = "returned"]
            /\ result' = [result EXCEPT ![e] = value]
            /\ semValue' = semValue + 1

\* An except clause that hands the generic result to the caller from inside
\* the semaphore.
LeakingExcept(e) ==
    /\ pc' = [pc EXCEPT ![e] = "returned"]
    /\ ret' = [ret EXCEPT ![e] = GenericError]
    /\ result' = [result EXCEPT ![e] = GenericError]
    /\ UNCHANGED semValue

\* "except Exception" of the try inside the semaphore (lines 511-518)
\* returns the generic result.
InnerExcept(e) == Return(e, GenericError)

\* ------------------------------------------------- handshake and pre-snapshot
\* A pre-execution snapshot that holds no file.
NoBeforeStates(e) == [p \in {} |-> NoFile]

\* Lines 302-305: before_file_states = self._scan_directory(session_path)
BeforeStates(e) == ScanDirectory(fs[session[e]])

\* Lines 293-305: mkdir of the session directory and the pre-execution
\* snapshot; the call goes on to the semaphore.  An exception of either goes
\* to the outer except clause.
PreSnapshot(e, events) ==
    \/ /\ before' = [before EXCEPT ![e] = BeforeStates(e)]
       /\ Continue(e, "acquire")
       /\ Log(e, events \o <<"pre_snapshot">>)
    \/ /\ OuterExcept(e)
       /\ Log(e, events \o <<"exception">>)
       /\ UNCHANGED before

\* An initialize that validates the client it has just constructed.
ProbeNewClient(e, events) ==
    /\ docker' = "Open"
    /\ Continue(e, "start")
    /\ Log(e, events)
    /\ UNCHANGED before

\* Lines 73-74 and 82-86: with no client, initialize constructs one; the
\* constructor may raise, which initialize logs and re-raises to the outer
\* except clause of execute.  No await stands between the construction and
\* the pre-snapshot, and nothing probes the new client.
Initialize(e, events) ==
    \/ /\ docker' = "Open"
       /\ PreSnapshot(e, events \o <<"client_opened">>)
    \/ /\ docker' = None
       /\ OuterExcept(e)
       /\ Log(e, events \o <<"open_failed", "exception">>)
       /\ UNCHANGED before

\* Lines 284-291 with _validate_docker_connection (547-554): an absent
\* client is initialized; a present one is probed with version().  When the
\* probe answers, the call goes on with the client it has; when it fails,
\* the call closes the client and awaits the end of _docker.close().
Handshake(e) ==
    /\ pc[e] = "start"
    /\ \/ /\ docker = None
          /\ Initialize(e, <<>>)
       \/ /\ docker = "Open"
          /\ PreSnapshot(e, <<>>)
          /\ UNCHANGED docker
       \/ /\ docker = "Open"
          /\ Continue(e, "closing")
          /\ Log(e, <<"probe_failed">>)
          /\ UNCHANGED <<docker, before>>
    /\ UNCHANGED <<serviceVars, inputVars, lockVars, imagesPresent, containers, hasContainer,
                   activeContainers, metricVars, cleanupVars, polls, execVars, fileVars>>

\* Lines 88-92 and 291: _docker.close() has ended, close sets the client to
\* None, and initialize opens a new one.
CloseClient(e) ==
    /\ pc[e] = "closing"
    /\ Initialize(e, <<"client_closed">>)
    /\ UNCHANGED <<serviceVars, inputVars, lockVars, imagesPresent, containers, hasContainer,
                   activeContainers, metricVars, cleanupVars, polls, execVars, fileVars>>

\* A semaphore that admits every caller.
SemaphoreNeverLocked == FALSE

\* asyncio.Semaphore.locked()
SemaphoreLocked == semValue = 0

\* Line 307: async with self._container_semaphore (entry).
AcquireSemaphore(e) ==
    /\ pc[e] = "acquire"
    /\ ~SemaphoreLocked
    /\ semValue' = semValue - 1
    /\ pc' = [pc EXCEPT ![e] = "inspect"]
    /\ Log(e, <<"permit_acquired">>)
    /\ UNCHANGED <<ret, result, serviceVars, inputVars, docker, lockVars, imagesPresent, containers,
                   hasContainer, activeContainers, metricVars, cleanupVars, polls, before, execVars, fileVars>>

\* ------------------------------------------------------- image coordinator
\* Lines 321-322: the lock of an image is created on its first miss.  No
\* await stands between the test and the insertion.
\* A lock map in which every caller overwrites the image's lock with its own.
OverwriteLock(locks, image, e) == [locks EXCEPT ![image] = {e}]

\* Lines 321-322: the lock of the image is created when the map has none.
EnsureLock(locks, image, e) ==
    IF locks[image] = {} THEN [locks EXCEPT ![image] = {e}] ELSE locks

\* An image lock that admits every caller.
LockNeverLocked(e) == FALSE

\* asyncio.Lock.locked() of the lock the call took from the map
LockLocked(e) == myLock[e] \in lockedLocks

\* An image lock that stays held when its holder leaves.
KeepLock(e) == lockedLocks

\* leaving "async with self._image_pull_locks[image_name]"
ReleaseLock(e) == lockedLocks \ {myLock[e]}

\* Lines 313-322 and 353-356: the first images.inspect.  It finds the
\* image, or answers 404, or fails otherwise (always so without a client).
Inspect(e) ==
    /\ pc[e] = "inspect"
    /\ \/ /\ docker = "Open"
          /\ ImageOf(e) \in imagesPresent
          /\ Continue(e, "create")
          /\ Log(e, <<"image_check", "image_found">>)
          /\ UNCHANGED <<imagePullLocks, myLock>>
       \/ /\ docker = "Open"
          /\ ImageOf(e) \notin imagesPresent
          /\ imagePullLocks' = EnsureLock(imagePullLocks, ImageOf(e), e)
          /\ myLock' = [myLock EXCEPT ![e] = CHOOSE l \in imagePullLocks'[ImageOf(e)] : TRUE]
          /\ Continue(e, "lockwait")
          /\ Log(e, <<"image_check", "image_absent">>)
       \/ /\ InnerExcept(e)
          /\ Log(e, <<"image_check", "exception">>)
          /\ UNCHANGED <<imagePullLocks, myLock>>
    /\ UNCHANGED <<serviceVars, inputVars, docker, lockedLocks, imagesPresent, containers,
                   hasContainer, activeContainers, metricVars, cleanupVars, polls, before, execVars, fileVars>>

\* Line 325: async with self._image_pull_locks[image_name] (entry).
AcquireImageLock(e) ==
    /\ pc[e] = "lockwait"
    /\ ~LockLocked(e)
    /\ lockedLocks' = lockedLocks \cup {myLock[e]}
    /\ Continue(e, "recheck")
    /\ Log(e, <<>>)
    /\ UNCHANGED <<serviceVars, inputVars, docker, imagePullLocks, myLock, imagesPresent, containers,
                   hasContainer, activeContainers, metricVars, cleanupVars, polls, before, execVars, fileVars>>

\* Lines 326-334 and 349-352: the second images.inspect, under the lock.
Recheck(e) ==
    /\ pc[e] = "recheck"
    /\ \/ /\ docker = "Open"
          /\ ImageOf(e) \in imagesPresent
          /\ lockedLocks' = ReleaseLock(e)
          /\ Continue(e, "create")
          /\ Log(e, <<"image_rechecked">>)
       \/ /\ docker = "Open"
          /\ ImageOf(e) \notin imagesPresent
          /\ Continue(e, "pull")
          /\ Log(e, <<"pull_issued">>)
          /\ UNCHANGED lockedLocks
       \/ /\ lockedLocks' = ReleaseLock(e)
          /\ InnerExcept(e)
          /\ Log(e, <<"exception">>)
    /\ UNCHANGED <<serviceVars, inputVars, docker, imagePullLocks, myLock, imagesPresent, containers,
                   hasContainer, activeContainers, metricVars, cleanupVars, polls, before, execVars, fileVars>>

\* Lines 335-348: images.pull; its failure is returned as a result.
Pull(e) ==
    /\ pc[e] = "pull"
    /\ \/ /\ docker = "Open"
          /\ imagesPresent' = imagesPresent \cup {ImageOf(e)}
          /\ Continue(e, "create")
          /\ Log(e, <<"pulled">>)
          /\ UNCHANGED pullError
       \/ \E pull_error \in PullErrors :
            /\ pullError' = [pullError EXCEPT ![e] = pull_error]
            /\ Return(e, PullFailed(ImageOf(e), pull_error))
            /\ Log(e, <<"pull_failed">>)
            /\ UNCHANGED imagesPresent
    /\ lockedLocks' = ReleaseLock(e)
    /\ UNCHANGED <<serviceVars, inputVars, docker, imagePullLocks, myLock, containers, hasContainer,
                   activeContainers, metricVars, cleanupVars, polls, before, captured, observedExit, outputText,
                   todo, outFiles, fileVars>>

\* ------------------------------------------------------ container lifecycle
\* Line 387: containers.create.
Create(e) ==
    /\ pc[e] = "create"
    /\ \/ /\ docker = "Open"
          /\ containers' = containers \cup {ContainerId(e)}
          /\ hasContainer' = [hasContainer EXCEPT ![e] = TRUE]
          /\ Continue(e, "startc")
          /\ Log(e, <<"container_created">>)
       \/ /\ InnerExcept(e)
          /\ Log(e, <<"exception">>)
          /\ UNCHANGED <<containers, hasContainer>>
    /\ UNCHANGED <<serviceVars, inputVars, docker, lockVars, imagesPresent, activeContainers, metricVars, cleanupVars, polls,
                   before, execVars, fileVars>>

\* Lines 388-397: container.start, then the metrics entry of the container
\* and the task that samples its usage.
StartContainer(e) ==
    /\ pc[e] = "startc"
    /\ \/ /\ activeContainers' = activeContainers \cup {ContainerId(e)}
          /\ samplers' = samplers \cup {ContainerId(e)}
          /\ UNCHANGED usage
          /\ Continue(e, "poll")
          /\ Log(e, <<"container_start">>)
       \/ /\ InnerExcept(e)
          /\ Log(e, <<"exception">>)
          /\ UNCHANGED <<activeContainers, metricVars>>
    /\ UNCHANGED <<serviceVars, cleanupVars, inputVars, docker, lockVars, imagesPresent, containers,
                   hasContainer, polls, before, execVars, fileVars>>

\* Lines 399-407: one iteration of the loop that waits for State.Running.
\* show() says running; or not running with the deadline passed; or show()
\* raises; or not running, and the loop sleeps and polls again.
Poll(e) ==
    /\ pc[e] = "poll"
    /\ \/ /\ Continue(e, "chown")
          /\ Log(e, <<"running">>)
          /\ polls' = [polls EXCEPT ![e] = 0]
       \/ /\ InnerExcept(e)
          /\ \/ Log(e, <<"exception">>)
             \/ Log(e, <<"start_deadline", "exception">>)
          /\ polls' = [polls EXCEPT ![e] = 0]
       \/ /\ polls[e] < MaxPolls
          /\ polls' = [polls EXCEPT ![e] = polls[e] + 1]
          /\ Stay
          /\ Log(e, <<>>)
    /\ UNCHANGED <<serviceVars, inputVars, docker, lockVars, imagesPresent, containers, hasContainer,
                   activeContainers, metricVars, cleanupVars, before, execVars, fileVars>>

\* Lines 409-422: the chown exec, its start and the read of its stream.
\* The exit code of that exec is never read: the history keeps whether it
\* was zero, and the call goes on to the interpreter exec either way.
Chown(e) ==
    /\ pc[e] = "chown"
    /\ \/ /\ docker = "Open"
          /\ \E raw \in RawOutputs : ~CleanOutputRaises(raw)
          /\ Continue(e, "exec")
          /\ \E code \in interp.exits :
                Log(e, IF code = 0 THEN <<"chown_ok">> ELSE <<"chown_nonzero">>)
       \/ /\ InnerExcept(e)
          /\ Log(e, <<"chown_failed", "exception">>)
    /\ UNCHANGED <<serviceVars, inputVars, docker, lockVars, imagesPresent, containers, hasContainer,
                   activeContainers, metricVars, cleanupVars, polls, before, execVars, fileVars>>

\* ---------------------------------------------------------- interpreter exec
\* Lines 433-441: the interpreter exec is created and started.
ExecStart(e) ==
    /\ pc[e] = "exec"
    /\ \/ /\ docker = "Open"
          /\ Continue(e, "running")
          /\ Log(e, <<"interpreter_start">>)
       \/ /\ InnerExcept(e)
          /\ Log(e, <<"exception">>)
    /\ UNCHANGED <<serviceVars, inputVars, docker, lockVars, imagesPresent, containers, hasContainer,
                   activeContainers, metricVars, cleanupVars, polls, before, execVars, fileVars>>

\* What the interpreter may do to one path of /mnt/data, which is the session
\* directory: write it, write it and put the old mtime back, touch it, remove it.
FileOps == {"write", "write_keep_mtime", "touch", "delete"}

ApplyOp(f, op, c, now) ==
    CASE op = "write" -> File(c, now)
      [] op = "write_keep_mtime" -> File(c, f.mtime)
      [] op = "touch" -> File(f.content, now)
      [] OTHER -> NoFile

\* The interpreter, running in the container on the bind mount, does one
\* file operation.
FileOp(e) ==
    /\ pc[e] = "running"
    /\ clock < MaxOps
    /\ \E p \in Paths, op \in FileOps, c \in Contents :
         LET f == fs[session[e]][p] IN
         /\ op # "write" => f.exists
         /\ op \in {"touch", "delete"} => c = <<>>
         /\ fs' = [fs EXCEPT ![session[e]][p] = ApplyOp(f, op, c, clock + 1)]
         /\ oplog' = [oplog EXCEPT ![e] =
                Append(@, [op |-> op, path |-> p,
                           same |-> f.exists /\ op \in {"write", "write_keep_mtime"}
                                    /\ f.content = c])]
    /\ clock' = clock + 1
    /\ Stay
    /\ UNCHANGED <<serviceVars, inputVars, docker, lockVars, imagesPresent, containers, hasContainer,
                   activeContainers, metricVars, cleanupVars, polls, before, execVars, trace, dbFiles, nextFileId,
                   returnedFiles, orphans>>

\* Lines 441-443: the interpreter ends, its stream is read to the end and
\* decoded.
ExecRead(e) ==
    /\ pc[e] = "running"
    /\ \/ \E raw \in interp.outputs :
            /\ captured' = [captured EXCEPT ![e] = raw]
            /\ IF CleanOutputRaises(raw)
               THEN /\ InnerExcept(e)
                    /\ Log(e, <<"exception">>)
                    /\ UNCHANGED outputText
               ELSE /\ outputText' = [outputText EXCEPT ![e] = CleanOutput(raw)]
                    /\ Continue(e, "inspectExit")
                    /\ Log(e, <<"output_read">>)
       \/ /\ InnerExcept(e)
          /\ Log(e, <<"exception">>)
          /\ UNCHANGED <<captured, outputText>>
    /\ UNCHANGED <<serviceVars, inputVars, docker, lockVars, imagesPresent, containers, hasContainer,
                   activeContainers, metricVars, cleanupVars, polls, before, observedExit, todo, outFiles, pullError,
                   fileVars>>

\* --------------------------------------------------------- file registration
\* Lines 465-490: the record of a changed file.
FileData(e, p, id) ==
    [id |-> id,
     session_id |-> session[e],
     filename |-> Basename(p),
     filepath |-> [session_id |-> session[e], rel_path |-> p],
     size |-> Len(fs[session[e]][p].content),
     content_type |-> GuessType(p),
     original_filename |-> Basename(p),
     etag |-> Etag(fs[session[e]][p].mtime)]

\* database.py, files.content_type is NOT NULL: the insert or update of a
\* record without a content type raises.
AddFileRaises(data) == data.content_type = None

\* The columns of a record and the two timestamp columns of its row.
Row(data, created_at, last_modified) ==
    [id |-> data.id, session_id |-> data.session_id, filename |-> data.filename,
     filepath |-> data.filepath, size |-> data.size, content_type |-> data.content_type,
     original_filename |-> data.original_filename, etag |-> data.etag,
     created_at |-> created_at, last_modified |-> last_modified]

\* The row of the files table with the key of the record, if any (lines 55-59).
Existing(rows, data) ==
    {r \in rows : r.session_id = data.session_id /\ r.filename = data.filename}

\* DatabaseManager.list_files
ListFiles(rows, session_id) == {r \in rows : r.session_id = session_id}

\* A write that leaves the rows of the table as they are.
KeepRows(rows, data, now) == rows

\* An update that also rewrites created_at.
UpdateAll(rows, data, now) == (rows \ Existing(rows, data)) \cup {Row(data, now, now)}

\* Lines 63-82: UPDATE ... WHERE session_id = ? AND filename = ?
UpdateRow(rows, data, now) ==
    (rows \ Existing(rows, data))
        \cup {Row(data, r.created_at, now) : r \in Existing(rows, data)}

\* Lines 85-105: INSERT INTO files.
InsertRow(rows, data, now) == rows \cup {Row(data, now, now)}

\* DatabaseManager.add_file run without another statement in between: the
\* update of the row with the same (session_id, filename), or the insert.
AddFile(rows, data, now) ==
    IF Existing(rows, data) # {} THEN UpdateRow(rows, data, now)
    ELSE InsertRow(rows, data, now)

\* Lines 497-509, reached when no changed path is left.
Finish(e, files) == Return(e, OkResult(outputText[e], files))

\* A snapshot taken before the exit code of the interpreter is read.
SnapshotThenExit == <<"post_snapshot", "interpreter_exit">>

\* Lines 446-452: the exit code is read, then the directory is scanned.
ExitThenSnapshot == <<"interpreter_exit", "post_snapshot">>

\* Lines 445-462: exec.inspect, the classification by exit code, the
\* post-execution snapshot and the diff.
InspectExit(e) ==
    /\ pc[e] = "inspectExit"
    /\ \/ \E code \in interp.exits :
            /\ observedExit' = [observedExit EXCEPT ![e] = code]
            /\ IF code # 0
               THEN /\ Return(e, NonZeroResult(outputText[e]))
                    /\ Log(e, <<"interpreter_exit">>)
                    /\ UNCHANGED <<todo, outFiles>>
               ELSE LET changed == FindChangedFiles(before[e], ScanDirectory(fs[session[e]]))
                    IN /\ outFiles' = [outFiles EXCEPT ![e] = <<>>]
                       /\ todo' = [todo EXCEPT ![e] = changed]
                       /\ IF changed = {} THEN Finish(e, <<>>)
                          ELSE Continue(e, "register")
                       /\ Log(e, ExitThenSnapshot)
       \/ /\ InnerExcept(e)
          /\ Log(e, <<"exception">>)
          /\ UNCHANGED <<observedExit, todo, outFiles>>
    /\ UNCHANGED <<serviceVars, inputVars, docker, lockVars, imagesPresent, containers, hasContainer,
                   activeContainers, metricVars, cleanupVars, polls, before, captured, outputText, pullError,
                   fileVars>>

\* Lines 464-495: one iteration of the loop over the changed paths, in the
\* order the set yields them; it ends at the await of add_file, which may
\* fail.
Register(e) ==
    /\ pc[e] = "register"
    /\ \E p \in todo[e] :
         LET rest == todo[e] \ {p}
             data == FileData(e, p, nextFileId + 1)
         IN /\ todo' = [todo EXCEPT ![e] = rest]
            /\ IF ~fs[session[e]][p].exists
               THEN /\ UNCHANGED <<dbFiles, nextFileId, outFiles>>
                    /\ IF rest = {} THEN Finish(e, outFiles[e]) ELSE Stay
                    /\ Log(e, <<>>)
               ELSE /\ nextFileId' = nextFileId + 1
                    /\ \/ /\ ~AddFileRaises(data)
                          /\ dbFiles' = AddFile(dbFiles, data, clock)
                          /\ outFiles' = [outFiles EXCEPT ![e] = Append(@, data)]
                          /\ IF rest = {} THEN Finish(e, Append(outFiles[e], data)) ELSE Stay
                          /\ Log(e, <<"metadata_write">>)
                       \/ /\ InnerExcept(e)
                          /\ Log(e, <<"exception">>)
                          /\ UNCHANGED <<dbFiles, outFiles>>
    /\ UNCHANGED <<serviceVars, inputVars, docker, lockVars, imagesPresent, containers, hasContainer,
                   activeContainers, metricVars, cleanupVars, polls, before, captured, observedExit, outputText,
                   pullError, fs, clock, oplog, returnedFiles, orphans>>

\* ------------------------------------------------------------ metrics sampler
\* Lines 242-245: under self._lock the sampler writes the usage fields of the
\* entry of the container when the map holds one; it adds no entry.
SampleUsage(sampled, active, id) == IF id \in active THEN sampled \cup {id} ELSE sampled

\* Lines 196-247: the task line 397 created for a container of the call.
\* container.stats answers and the entry is updated under the lock; or it
\* answers nothing or raises, which is logged.
UpdateContainerMetrics(e) ==
    \E id \in samplers :
        /\ id.exec = e
        /\ samplers' = samplers \ {id}
        /\ \/ usage' = SampleUsage(usage, activeContainers, id)
           \/ UNCHANGED usage
        /\ UNCHANGED <<pc, ret, result, semValue, serviceVars, cleanupVars, inputVars, docker,
                       lockVars, imagesPresent, containers, hasContainer, activeContainers, polls, before,
                       execVars, trace, fileVars>>

\* ------------------------------------------------------------------ teardown
\* Lines 525-526 sit in the try block of the delete, after it: the metrics
\* entry is popped when container.delete returned.
PopMetrics(active, id, deleted) == IF deleted THEN active \ {id} ELSE active

\* A finally block whose failure replaces the value of the return statement.
TeardownErrorWins(value, deleted) == IF deleted THEN value ELSE GenericError

\* Lines 520-528: the except clause of the finally block logs the error of
\* the delete; the value of the return statement the block runs under is
\* what execute returns.
AfterFinally(value, deleted) == value

\* Lines 520-528 with a container: container.delete(force=True) removes the
\* container or raises; then the exit of "async with
\* self._container_semaphore" and the return to the caller.
Finally(e) ==
    /\ pc[e] = "finally"
    /\ semValue' = semValue + 1
    /\ pc' = [pc EXCEPT ![e] = "returned"]
    /\ \E deleted \in BOOLEAN :
         /\ containers' = IF deleted THEN containers \ {ContainerId(e)} ELSE containers
         /\ activeContainers' = PopMetrics(activeContainers, ContainerId(e), deleted)
         /\ usage' = PopMetrics(usage, ContainerId(e), deleted)
         /\ result' = [result EXCEPT ![e] = AfterFinally(ret[e], deleted)]
         /\ returnedFiles' =
               returnedFiles \cup {[session_id |-> result'[e].files[i].session_id,
                                     id |-> result'[e].files[i].id]
                                       : i \in 1..Len(result'[e].files)}
         /\ Log(e, IF deleted THEN <<"teardown">> ELSE <<"teardown_failed">>)
    /\ UNCHANGED <<ret, serviceVars, cleanupVars, inputVars, docker, lockVars, imagesPresent, hasContainer, polls,
                   before, execVars, samplers, fs, clock, dbFiles, nextFileId, oplog, orphans>>

\* The caller makes its next call of execute, in the same session.
Resubmit(e) ==
    /\ pc[e] = "returned"
    /\ runs[e] < MaxRuns
    /\ runs' = [runs EXCEPT ![e] = runs[e] + 1]
    /\ pc' = [pc EXCEPT ![e] = "start"]
    /\ hasContainer' = [hasContainer EXCEPT ![e] = FALSE]
    /\ before' = [before EXCEPT ![e] = <<>>]
    /\ captured' = [captured EXCEPT ![e] = <<>>]
    /\ observedExit' = [observedExit EXCEPT ![e] = -1]
    /\ outputText' = [outputText EXCEPT ![e] = <<>>]
    /\ todo' = [todo EXCEPT ![e] = {}]
    /\ outFiles' = [outFiles EXCEPT ![e] = <<>>]
    /\ ret' = [ret EXCEPT ![e] = NoResult]
    /\ result' = [result EXCEPT ![e] = NoResult]
    /\ fs0' = [fs0 EXCEPT ![e] = fs[session[e]]]
    /\ oplog' = [oplog EXCEPT ![e] = <<>>]
    /\ orphans' = IF result[e].status = "error"
                  THEN orphans \cup {[session_id |-> session[e], rel_path |-> oplog[e][i].path]
                                       : i \in {j \in DOMAIN oplog[e] :
                                                  oplog[e][j].op \in {"write", "write_keep_mtime"}}}
                  ELSE orphans
    /\ pullError' = [pullError EXCEPT ![e] = None]
    /\ trace' = [trace EXCEPT ![e] = <<>>]
    /\ UNCHANGED <<serviceVars, lang, session, interp, logged, docker, semValue, lockVars, imagesPresent,
                   containers, activeContainers, metricVars, cleanupVars, polls, fs, clock, dbFiles, nextFileId,
                   returnedFiles>>

\* ------------------------------------------------------------ metadata store
\* The callers of DatabaseManager: each call opens its own connection, and
\* every await of a call is a point where the other callers' statements run.
\* The file_data a caller hands to add_file: a fresh id, and a size and an
\* etag that differ from one record to the next.
StoreRecord(session_id, filename, id) ==
    [id |-> id, session_id |-> session_id, filename |-> filename,
     filepath |-> [session_id |-> session_id,
                   rel_path |-> [dir |-> <<>>, stem |-> filename.stem, ext |-> filename.ext]],
     size |-> id,
     content_type |-> GuessType(filename),
     original_filename |-> filename,
     etag |-> Etag(id)]

KeyOf(data) == [session_id |-> data.session_id, filename |-> data.filename]

\* The eight columns of a row that add_file takes from file_data.
RecordOf(r) ==
    [id |-> r.id, session_id |-> r.session_id, filename |-> r.filename,
     filepath |-> r.filepath, size |-> r.size, content_type |-> r.content_type,
     original_filename |-> r.original_filename, etag |-> r.etag]

\* Lines 114-117: SELECT * FROM files WHERE session_id = ? AND id = ?
GetFileRows(rows, session_id, file_id) ==
    {r \in rows : r.session_id = session_id /\ r.id = file_id}

\* A delete that looks at the id alone.
DeleteById(rows, session_id, file_id) == {r \in rows : r.id # file_id}

\* Line 136: DELETE FROM files WHERE session_id = ? AND id = ?
DeleteRows(rows, session_id, file_id) == rows \ GetFileRows(rows, session_id, file_id)

\* Lines 146 and 151: the rows WHERE last_modified < cutoff
OlderThan(rows, cutoff) == {r \in rows : r.last_modified < cutoff}

\* add_file, lines 53-59: the caller made its record, the connection is
\* open and the SELECT of the row with the key of the record has answered.
AddFileSelect(c) ==
    /\ client[c].pc = "idle"
    /\ nextFileId < MaxFiles
    /\ \E session_id \in StoreSessions, filename \in StoreNames :
         LET data == StoreRecord(session_id, filename, nextFileId + 1) IN
         /\ client' = [client EXCEPT ![c] =
                          [Idle EXCEPT !.pc = "selected", !.data = data,
                                       !.existing = Existing(dbFiles, data) # {}]]
         /\ disk' = disk \cup {data.filepath}
    /\ nextFileId' = nextFileId + 1
    /\ UNCHANGED <<written, reply, apiVars, pc, ret, result, semValue, inputVars, docker, lockVars,
                   imagesPresent, containers, hasContainer, activeContainers, metricVars, cleanupVars, polls,
                   before, execVars, trace, fs, clock, dbFiles, oplog, returnedFiles, orphans>>

\* add_file, lines 61-107: the UPDATE or the INSERT that the answer of the
\* SELECT chose, and the commit.  The table refuses a row without content
\* type and a second row with the key of another.
AddFileWrite(c) ==
    LET data == client[c].data
        k == KeyOf(data)
        present == Existing(dbFiles, data) # {}
        answer == [NoReply EXCEPT !.op = "add_file", !.data = data,
                                  !.stale = (client[c].existing # present)]
    IN
    /\ client[c].pc = "selected"
    /\ client' = [client EXCEPT ![c] = Idle]
    /\ IF AddFileRaises(data) \/ (~client[c].existing /\ present)
       THEN /\ reply' = [answer EXCEPT !.raised = "IntegrityError"]
            /\ UNCHANGED <<dbFiles, written>>
       ELSE /\ reply' = answer
            /\ IF client[c].existing
               THEN /\ dbFiles' = UpdateRow(dbFiles, data, clock)
                    /\ written' = IF present THEN [written EXCEPT ![k].last = clock]
                                  ELSE written
               ELSE /\ dbFiles' = InsertRow(dbFiles, data, clock)
                    /\ written' = [written EXCEPT ![k] = [first |-> clock, last |-> clock]]
    /\ UNCHANGED <<disk, apiVars, pc, ret, result, semValue, inputVars, docker, lockVars,
                   imagesPresent, containers, hasContainer, activeContainers, metricVars, cleanupVars, polls,
                   before, execVars, trace, fs, clock, nextFileId, oplog, returnedFiles, orphans>>

\* get_file, lines 109-123.
GetFile(c) ==
    /\ client[c].pc = "idle"
    /\ \E session_id \in StoreSessions, file_id \in 1..nextFileId :
         LET found == GetFileRows(dbFiles, session_id, file_id) IN
         reply' = [NoReply EXCEPT !.op = "get_file", !.session_id = session_id,
                                  !.file_id = file_id, !.rows = found,
                                  !.raised = IF found = {} THEN "FileNotFoundError"
                                             ELSE None]
    /\ UNCHANGED <<client, written, disk, apiVars, pc, ret, result, semValue, inputVars, docker, lockVars,
                   imagesPresent, containers, hasContainer, activeContainers, metricVars, cleanupVars, polls,
                   before, execVars, trace, fileVars>>

\* delete_file, lines 133-138.
DeleteFile(c) ==
    /\ client[c].pc = "idle"
    /\ \E session_id \in StoreSessions, file_id \in 1..nextFileId :
         LET gone == dbFiles \ DeleteRows(dbFiles, session_id, file_id) IN
         /\ dbFiles' = DeleteRows(dbFiles, session_id, file_id)
         /\ written' = [k \in StoreKeys |->
                           IF \E r \in gone : KeyOf(r) = k THEN NeverWritten ELSE written[k]]
         /\ reply' = [NoReply EXCEPT !.op = "delete_file", !.session_id = session_id,
                                     !.file_id = file_id, !.removed = gone,
                                     !.deleted = Cardinality(gone) > 0]
    /\ UNCHANGED <<client, disk, apiVars, pc, ret, result, semValue, inputVars, docker, lockVars,
                   imagesPresent, containers, hasContainer, activeContainers, metricVars, cleanupVars, polls,
                   before, execVars, trace, fs, clock, nextFileId, oplog, returnedFiles, orphans>>

\* cleanup_old_files, lines 142-150: the cutoff, the SELECT of the rows to
\* delete, and the return when there is none.
CleanupSelect(c) ==
    /\ client[c].pc = "idle"
    /\ LET cutoff == clock - MaxAge
           to_delete == OlderThan(dbFiles, cutoff)
       IN IF to_delete = {}
          THEN /\ reply' = [NoReply EXCEPT !.op = "cleanup_old_files"]
               /\ UNCHANGED client
          ELSE /\ client' = [client EXCEPT ![c] =
                                [Idle EXCEPT !.pc = "reaping", !.cutoff = cutoff,
                                             !.to_delete = to_delete]]
               /\ UNCHANGED reply
    /\ UNCHANGED <<written, disk, apiVars, pc, ret, result, semValue, inputVars, docker, lockVars,
                   imagesPresent, containers, hasContainer, activeContainers, metricVars, cleanupVars, polls,
                   before, execVars, trace, fileVars>>

\* cleanup_old_files, lines 151-154: the DELETE with the same cutoff, the
\* commit, and the return of what the SELECT had answered.
CleanupDelete(c) ==
    /\ client[c].pc = "reaping"
    /\ LET gone == OlderThan(dbFiles, client[c].cutoff) IN
         /\ dbFiles' = dbFiles \ gone
         /\ written' = [k \in StoreKeys |->
                           IF \E r \in gone : KeyOf(r) = k THEN NeverWritten ELSE written[k]]
         /\ reply' = [NoReply EXCEPT !.op = "cleanup_old_files", !.removed = gone,
                                     !.value = client[c].to_delete]
    /\ client' = [client EXCEPT ![c].pc = "unlinking"]
    /\ UNCHANGED <<disk, apiVars, pc, ret, result, semValue, inputVars, docker, lockVars,
                   imagesPresent, containers, hasContainer, activeContainers, metricVars, cleanupVars, polls,
                   before, execVars, trace, fs, clock, nextFileId, oplog, returnedFiles, orphans>>

\* cleanup_files, lines 23-27: the paths the loop over old_files unlinks, the
\* path of each row whose file exists.
UnlinkedFiles(files, old_files) == {r.filepath : r \in old_files} \cap files

\* cleanup_files, lines 19-37: cleanup_old_files has returned its rows and
\* closed its connection, and the loop unlinks their files.
CleanupUnlink(c) ==
    /\ client[c].pc = "unlinking"
    /\ LET gone == UnlinkedFiles(disk, client[c].to_delete) IN
         /\ disk' = disk \ gone
         /\ reply' = [NoReply EXCEPT !.op = "cleanup_files", !.value = client[c].to_delete,
                                     !.unlinked = gone]
    /\ client' = [client EXCEPT ![c] = Idle]
    /\ UNCHANGED <<written, apiVars, pc, ret, result, semValue, inputVars, docker, lockVars,
                   imagesPresent, containers, hasContainer, activeContainers, metricVars, cleanupVars, polls,
                   before, execVars, trace, fileVars>>

\* Time passes.
Tick ==
    /\ clock < MaxTime
    /\ clock' = clock + 1
    /\ UNCHANGED <<serviceVars, pc, ret, result, semValue, inputVars, docker, lockVars,
                   imagesPresent, containers, hasContainer, activeContainers, metricVars, cleanupVars, polls,
                   before, execVars, trace, fs, dbFiles, nextFileId, oplog, returnedFiles, orphans>>

\* One step of one caller of the store.
StoreStep(c) ==
    \/ AddFileSelect(c)
    \/ AddFileWrite(c)
    \/ GetFile(c)
    \/ DeleteFile(c)
    \/ CleanupSelect(c)
    \/ CleanupDelete(c)
    \/ CleanupUnlink(c)

\* ------------------------------------------------------------ specifications
\* One step of one execute call whose interpreter changed no file.
EngineStep(e) ==
    \/ Handshake(e)
    \/ CloseClient(e)
    \/ AcquireSemaphore(e)
    \/ Inspect(e)
    \/ AcquireImageLock(e)
    \/ Recheck(e)
    \/ Pull(e)
    \/ Create(e)
    \/ StartContainer(e)
    \/ Poll(e)
    \/ Chown(e)
    \/ ExecStart(e)
    \/ ExecRead(e)
    \/ InspectExit(e)
    \/ Finally(e)

\* ------------------------------------------------------------ request layer
\* models/base.py, lines 32-37: the pattern of CodeExecutionRequest.lang.
LanguagePattern == {"c", "cpp", "d", "f90", "go", "java", "js", "php", "py", "rs", "ts", "r"}

\* api/base.py, line 33
SUPPORTED_LANGUAGES == {"py", "r"}

\* The values of lang a client of the model sends.
RequestLangs == {"py", "r", "js", "ruby"}

\* config.py, lines 36-70
FILE_ALLOWED_EXTENSIONS ==
    {"py", "c", "cpp", "java", "php", "rb", "js", "ts", "txt", "md", "html", "css", "tex",
     "json", "csv", "xml", "docx", "xlsx", "pptx", "pdf", "ipynb", "yml", "yaml", "zip",
     "tar", "jpg", "jpeg", "png", "gif"}

\* api/base.py, lines 100-106: the keyword arguments of the call of
\* docker_executor.execute.
ExecuteKeywords == {"code", "session_id", "lang", "files", "timeout"}

\* docker_executor.py, lines 270-277: the parameters of DockerExecutor.execute.
ExecuteParameters == {"code", "session_id", "lang", "files", "config"}

\* Python binds a call when every keyword names a parameter, and raises
\* TypeError before the body runs otherwise.
CallBinds(keywords, parameters) == keywords \subseteq parameters

\* Decoded and stripped outputs of up to MaxText characters.
OutputTexts ==
    UNION {[1..n -> {104, 105}] : n \in 0..MaxText}

\* The lists of registered files a result carries.
OutputFileLists ==
    LET a == [dir |-> <<>>, stem |-> "a", ext |-> "txt"]
        c == [dir |-> <<>>, stem |-> "c", ext |-> "txt"]
        rec(p, id) == [id |-> id, session_id |-> GeneratedIds[1], filename |-> Basename(p),
                       filepath |-> [session_id |-> GeneratedIds[1], rel_path |-> p],
                       size |-> id, content_type |-> GuessType(p),
                       original_filename |-> Basename(p), etag |-> Etag(id)]
    IN {<<>>, <<rec(a, 1)>>, <<rec(a, 1), rec(c, 2)>>}

\* The results DockerExecutor.execute returns: lines 342-348, 447-448,
\* 492-498 and 513-518.
EngineResults ==
    {GenericError}
    \cup {PullFailed(image, pull_error) : image \in Images, pull_error \in PullErrors}
    \cup {NonZeroResult(t) : t \in OutputTexts}
    \cup {OkResult(t, fl) : t \in OutputTexts, fl \in OutputFileLists}

\* Lines 108-115 of the route: an empty stdout becomes the hint of the language.
EmptyOutputHint(l, engine_result) ==
    IF engine_result.stdout = EmptyString
    THEN [engine_result EXCEPT !.stdout =
            IF l = "py"
            THEN Lit("Empty. Make sure to explicitly print the results in Python", <<>>)
            ELSE IF l = "r"
            THEN Lit("Empty. Make sure to use print() or cat() to display results in R", <<>>)
            ELSE Lit("Empty. Make sure to explicitly output the results", <<>>)]
    ELSE engine_result

\* The engine result of a request in lang arrives at line 108.
HintInputs ==
    [pc : {"returned"}, lang : SUPPORTED_LANGUAGES, result : EngineResults, run : {NoResult}]

\* Lines 108-115.
ApplyHint ==
    /\ hint.pc = "returned"
    /\ hint' = [hint EXCEPT !.pc = "hinted", !.run = EmptyOutputHint(hint.lang, hint.result)]
    /\ UNCHANGED <<storeVars, req, nextSession, uploads, call, engineVars, fileVars>>

\* The files under the directory of a session.
SessionDirectory(files, session_id) == {f \in files : f.session_id = session_id}

\* The request files a client of the model sends: ids of the sessions and
\* of the files handed out so far, and one that was never handed out.
RequestFiles ==
    [id : 1..(nextFileId + 1), session_id : {GeneratedIds[n] : n \in 1..nextSession}]

\* UNION of the sequences of up to n elements of S
SeqsUpTo(S, n) == UNION {[1..k -> S] : k \in 0..n}

\* generate_id() after n calls of it.
GenerateId(n) == GeneratedIds[n + 1]

\* Lines 100-106 and what follows them without an await: the call of the
\* engine, the hint, the response; the except clause of line 158.
CallEngine(r, cur) ==
    LET at_call == [cur EXCEPT !.fresh = \A q \in Reqs \ {r} : req[q].session_id # cur.session_id,
                               !.empty = SessionDirectory(uploads, cur.session_id) = {}]
    IN IF CallBinds(ExecuteKeywords, ExecuteParameters)
       THEN \E engine_result \in EngineResults :
              req' = [req EXCEPT ![r] =
                        [at_call EXCEPT !.pc = "done", !.invoked = TRUE,
                                        !.run = EmptyOutputHint(cur.lang, engine_result),
                                        !.status_code = 200]]
       ELSE req' = [req EXCEPT ![r] =
                      [at_call EXCEPT !.pc = "done", !.raised = "TypeError",
                                      !.status_code = 503]]

\* A route that runs in the session of the last file reference.
SessionOfLast(files, n) ==
    IF files # <<>> THEN files[Len(files)].session_id ELSE GenerateId(n)

\* Line 85: session_id = request.files[0].session_id if request.files else
\* generate_id(), after n calls of generate_id.
SessionOf(files, n) == IF files # <<>> THEN files[1].session_id ELSE GenerateId(n)

\* POST /v1/execute up to its first await. The validation of the body
\* answers 422; lines 78-81 answer 400; line 85 takes the session of the
\* first file or a new one.
ExecuteCode(r) ==
    /\ req[r].pc = "new"
    /\ \E l \in RequestLangs, files \in SeqsUpTo(RequestFiles, MaxRefs) :
         LET sent == [req[r] EXCEPT !.route = "execute", !.lang = l, !.files = files]
         IN IF l \notin LanguagePattern
            THEN /\ req' = [req EXCEPT ![r] = [sent EXCEPT !.pc = "done", !.status_code = 422]]
                 /\ UNCHANGED nextSession
            ELSE IF l \notin SUPPORTED_LANGUAGES
            THEN /\ req' = [req EXCEPT ![r] =
                              [sent EXCEPT !.pc = "done", !.status_code = 400,
                                           !.raised = "BadLanguageException"]]
                 /\ UNCHANGED nextSession
            ELSE IF files # <<>>
            THEN /\ req' = [req EXCEPT ![r] =
                              [sent EXCEPT !.pc = "lookup", !.next = 1,
                                           !.session_id = SessionOf(files, nextSession)]]
                 /\ UNCHANGED nextSession
            ELSE /\ nextSession < NumReqs
                 /\ nextSession' = nextSession + 1
                 /\ CallEngine(r, [sent EXCEPT !.session_id = SessionOf(files, nextSession)])
    /\ UNCHANGED <<storeVars, uploads, hint, call, engineVars, fileVars>>

\* Lines 90-97: file_manager.get_file of one request file. No row, or no
\* file on the disk, raises FileNotFoundError and the loop continues. After
\* the last one, the call of the engine.
Lookup(r) ==
    /\ req[r].pc = "lookup"
    /\ LET file_ref == req[r].files[req[r].next]
           rows == GetFileRows(dbFiles, file_ref.session_id, file_ref.id)
           on_disk == {f \in uploads : \E row \in rows :
                          f.session_id = row.session_id /\ f.filename = row.filename}
           found == IF rows # {} /\ on_disk # {}
                    THEN Append(req[r].found, file_ref)
                    ELSE req[r].found
           cur == [req[r] EXCEPT !.found = found]
       IN IF req[r].next < Len(req[r].files)
          THEN req' = [req EXCEPT ![r] = [cur EXCEPT !.next = @ + 1]]
          ELSE CallEngine(r, cur)
    /\ UNCHANGED <<storeVars, nextSession, uploads, hint, call, engineVars, fileVars>>

\* magic.Magic(mime=True).from_buffer(content)
MimeFromBuffer(content) ==
    IF content = <<>> THEN "application/x-empty" ELSE "application/octet-stream"

\* file_manager.py, lines 77-87: the record save_file hands to add_file.
UploadData(r) ==
    LET p == [dir |-> <<>>, stem |-> req[r].filename.stem, ext |-> req[r].filename.ext]
    IN [id |-> req[r].file_id,
        session_id |-> req[r].session_id,
        filename |-> req[r].filename,
        filepath |-> [session_id |-> req[r].session_id, rel_path |-> p],
        size |-> Len(req[r].content),
        content_type |-> MimeFromBuffer(req[r].content),
        original_filename |-> req[r].filename,
        etag |-> Md5(req[r].content)]

\* POST /v1/upload of one file up to the write: a new session, then
\* save_file, lines 42-55: the extension, a new file id.
UploadFiles(r) ==
    /\ req[r].pc = "new"
    /\ nextSession < NumReqs
    /\ nextFileId < MaxFiles
    /\ \E filename \in {Basename(p) : p \in Paths}, content \in Contents :
         LET sent == [req[r] EXCEPT !.route = "upload", !.filename = filename,
                                    !.content = content,
                                    !.session_id = GenerateId(nextSession)]
         IN /\ nextSession' = nextSession + 1
            /\ IF filename.ext \notin FILE_ALLOWED_EXTENSIONS
               THEN /\ req' = [req EXCEPT ![r] =
                                 [sent EXCEPT !.pc = "done", !.status_code = 400,
                                              !.raised = "ValueError"]]
                    /\ UNCHANGED nextFileId
               ELSE /\ req' = [req EXCEPT ![r] =
                                 [sent EXCEPT !.pc = "write", !.file_id = nextFileId + 1]]
                    /\ nextFileId' = nextFileId + 1
    /\ UNCHANGED <<storeVars, uploads, hint, call, engineVars, fs, clock, dbFiles, oplog,
                   returnedFiles, orphans>>

\* save_file, lines 61-62: the file is written under the session directory.
UploadWrite(r) ==
    /\ req[r].pc = "write"
    /\ uploads' = {f \in uploads : ~(f.session_id = req[r].session_id
                                      /\ f.filename = req[r].filename)}
                  \cup {[session_id |-> req[r].session_id, filename |-> req[r].filename,
                         content |-> req[r].content]}
    /\ req' = [req EXCEPT ![r].pc = "save"]
    /\ UNCHANGED <<storeVars, nextSession, hint, call, engineVars, fileVars>>

\* save_file, line 90, and the response of the route.
UploadSave(r) ==
    /\ req[r].pc = "save"
    /\ dbFiles' = AddFile(dbFiles, UploadData(r), clock)
    /\ req' = [req EXCEPT ![r].pc = "done", ![r].status_code = 200]
    /\ UNCHANGED <<storeVars, nextSession, uploads, hint, call, engineVars, fs, clock, nextFileId,
                   oplog, returnedFiles, orphans>>

\* One step of one request.
ApiStep(r) ==
    \/ ExecuteCode(r)
    \/ Lookup(r)
    \/ UploadFiles(r)
    \/ UploadWrite(r)
    \/ UploadSave(r)

\* ---------------------------------------------------- the differ, called
\* The states _scan_directory records for one path.
FileStates == {FileState(File(c, t)) : c \in Contents, t \in 1..MaxMtime}

\* The paths a snapshot can hold.
SnapshotPaths == {p \in Paths : ~EndsWithLock(p)}

\* The snapshots: a state for each path of a set of paths.
Snapshots == UNION {[ps -> FileStates] : ps \in SUBSET SnapshotPaths}

\* The calls of _find_changed_files.
DiffInputs ==
    [pc : {"called"}, op : {"_find_changed_files"}, before_states : Snapshots,
     after_states : Snapshots, value : {{}}]

\* _find_changed_files returns.
ApplyDiff ==
    /\ call.pc = "called"
    /\ call.op = "_find_changed_files"
    /\ call' = [call EXCEPT !.pc = "returned",
                            !.value = FindChangedFiles(call.before_states, call.after_states)]
    /\ UNCHANGED <<storeVars, req, nextSession, uploads, hint, engineVars, fileVars>>

\* ------------------------------------------- the stream demultiplexer, called
\* Payload bytes of the model: a space, a letter, a byte no UTF-8 text holds.
PayloadBytes == {32, 104, 255}

\* The first byte of a header: 1 = stdout, 2 = stderr.
StreamKinds == {1, 2}

StreamFrames == [kind : StreamKinds, payload : UNION {[1..n -> PayloadBytes] : n \in 0..MaxPayload}]

\* The bytes of a list of frames on the wire.
RECURSIVE Encode(_)
Encode(frames) ==
    IF frames = <<>> THEN <<>>
    ELSE Frame(Head(frames).kind, Head(frames).payload) \o Encode(Tail(frames))

\* What can follow the last complete frame: a frame cut short, in its
\* header or in its payload, or a header of 256 bytes of payload with less.
Truncations ==
    UNION {{SubSeq(Frame(f.kind, f.payload), 1, n) : n \in 0..(7 + Len(f.payload))}
              : f \in StreamFrames}
    \cup {<<k, 0, 0, 0, 0, 0, 1, 0>> \o f.payload : k \in StreamKinds, f \in StreamFrames}

\* The calls of _clean_output: the frames and the cut frame the buffer is
\* made of, and the buffer.
DemuxInputs ==
    {[pc |-> "called", op |-> "_clean_output", frames |-> fl, tail |-> t,
      raw_output |-> Encode(fl) \o t, raised |-> FALSE, value |-> <<>>]
        : fl \in UNION {[1..n -> StreamFrames] : n \in 0..MaxFrames}, t \in Truncations}

\* _clean_output returns or raises UnicodeDecodeError.
ApplyCleanOutput ==
    /\ call.pc = "called"
    /\ call.op = "_clean_output"
    /\ call' = IF CleanOutputRaises(call.raw_output)
               THEN [call EXCEPT !.pc = "returned", !.raised = TRUE]
               ELSE [call EXCEPT !.pc = "returned", !.value = CleanOutput(call.raw_output)]
    /\ UNCHANGED <<storeVars, req, nextSession, uploads, hint, engineVars, fileVars>>

\* NumExecs execute calls submitted at once, the last one in R and the
\* others in Python; their code prints nothing, writes no file and exits 0.
Init == InitAll /\ interp = QuietRuns /\ logged = PullEvents /\ hint = NoHint /\ call = NoCall

Next == \E e \in Execs : EngineStep(e)

Spec == Init /\ [][Next]_vars

\* The event loop runs every coroutine that can run.
FairSpec == Spec /\ \A e \in Execs : WF_vars(EngineStep(e))

\* One caller making MaxRuns calls one after the other in one session; the
\* code of the calls does up to MaxOps file operations in all.
InitSeq == InitAll /\ interp = AnyRuns /\ logged = Events /\ hint = NoHint /\ call = NoCall

NextSeq == \E e \in SeqExecs : EngineStep(e) \/ FileOp(e) \/ Register(e) \/ Resubmit(e)

SpecSeq == InitSeq /\ [][NextSeq]_vars

\* The concurrent calls of Spec with the sampler tasks of their containers,
\* which run at any time, also after the call that created them has
\* returned.
InitMetrics == InitAll /\ interp = QuietRuns /\ logged = {} /\ hint = NoHint /\ call = NoCall

NextMetrics == \E e \in Execs : EngineStep(e) \/ UpdateContainerMetrics(e)

SpecMetrics == InitMetrics /\ [][NextMetrics]_vars

\* NumClients callers of the metadata store, each making one call after the
\* other of add_file, get_file, delete_file and cleanup_old_files, while
\* time passes.
InitStore == InitAll /\ interp = QuietRuns /\ logged = {} /\ hint = NoHint /\ call = NoCall

NextStore == Tick \/ \E c \in StoreClients : StoreStep(c)

SpecStore == InitStore /\ [][NextStore]_vars

\* NumReqs requests of POST /v1/execute and POST /v1/upload, handled by one
\* event loop.
InitApi == InitAll /\ interp = QuietRuns /\ logged = {} /\ hint = NoHint /\ call = NoCall

NextApi == \E r \in Reqs : ApiStep(r)

SpecApi == InitApi /\ [][NextApi]_vars

\* Every engine result, in every supported language, through lines 108-115.
InitHint == InitAll /\ interp = QuietRuns /\ logged = {} /\ hint \in HintInputs /\ call = NoCall

NextHint == ApplyHint

SpecHint == InitHint /\ [][NextHint]_vars

\* Every pair of snapshots of the model through _find_changed_files.
InitDiff == InitAll /\ interp = QuietRuns /\ logged = {} /\ hint = NoHint /\ call \in DiffInputs

NextDiff == ApplyDiff

SpecDiff == InitDiff /\ [][NextDiff]_vars

\* Every buffer of the model through _clean_output.
InitDemux == InitAll /\ interp = QuietRuns /\ logged = {} /\ hint = NoHint /\ call \in DemuxInputs

NextDemux == ApplyCleanOutput

SpecDemux == InitDemux /\ [][NextDemux]_vars

\* ------------------------------------------------------- the reaper, called
\* The ages of the model, in seconds: the multiples of a quarter of an hour.
Quarter == 900

Ages == {Quarter * k : k \in 0..MaxQuarters}

\* cleanup.py line 20: max_age_hours = settings.CLEANUP_FILE_MAX_AGE // 3600
MaxAgeHours(max_age) == max_age \div 3600

\* database.py line 142: cutoff = datetime.now(UTC) - timedelta(hours=max_age_hours),
\* in seconds.
Cutoff(now, max_age_hours) == now - max_age_hours * 3600

\* The rows of the table when the reaper runs: one row of every age, or none.
ReapTables ==
    {{}} \cup {{[id |-> 1, last_modified |-> Quarter * MaxQuarters - age]} : age \in Ages}

\* The calls of cleanup_files: the setting, the time of the call, the table.
ReapInputs ==
    [pc : {"called"}, op : {"cleanup_files"}, max_age : Ages, now : {Quarter * MaxQuarters},
     rows : ReapTables, value : {{}}]

\* cleanup_files, lines 19-21, with cleanup_old_files, lines 142-154: the
\* rows older than the cutoff are deleted and returned.
ApplyCleanupFiles ==
    /\ call.pc = "called"
    /\ call.op = "cleanup_files"
    /\ call' = [call EXCEPT !.pc = "returned",
                            !.value = OlderThan(call.rows,
                                               Cutoff(call.now, MaxAgeHours(call.max_age)))]
    /\ UNCHANGED <<storeVars, req, nextSession, uploads, hint, engineVars, fileVars>>

\* Every setting and every age of the model through cleanup_files.
InitReap == InitAll /\ interp = QuietRuns /\ logged = {} /\ hint = NoHint /\ call \in ReapInputs

NextReap == ApplyCleanupFiles

SpecReap == InitReap /\ [][NextReap]_vars

\* ------------------------------------------------------------ cleanup service
\* asyncio.create_task: the task it returns was never returned before.
CreateTask == 1 + Cardinality({t \in TaskIds : loops[t].pc # "none"})

\* The tasks of _cleanup_loop that asyncio has not finished.
LiveLoops == {t \in TaskIds : loops[t].pc \in {"created", "cleaning", "sleeping"}}

\* A start that does not look at _cleanup_task.
StartAlways ==
    /\ lifespan.pc = "idle"
    /\ lifespan.calls < MaxCalls
    /\ lifespan' = [lifespan EXCEPT !.calls = @ + 1, !.last = "start"]
    /\ running' = TRUE
    /\ cleanup_task' = CreateTask
    /\ loops' = [loops EXCEPT ![CreateTask] = [pc |-> "created", cancelled |-> FALSE, sweeps |-> 0]]
    /\ UNCHANGED <<storeVars, apiVars, pc, ret, result, semValue, inputVars, docker, lockVars,
                   imagesPresent, containers, hasContainer, activeContainers, polls, before,
                   execVars, trace, metricVars, fileVars>>

\* start, lines 55-60: without a task, set the flag and create the task of
\* the loop; with a task, nothing.
Start ==
    /\ lifespan.pc = "idle"
    /\ lifespan.calls < MaxCalls
    /\ lifespan' = [lifespan EXCEPT !.calls = @ + 1, !.last = "start"]
    /\ IF cleanup_task = NoTask
       THEN /\ running' = TRUE
            /\ cleanup_task' = CreateTask
            /\ loops' = [loops EXCEPT ![CreateTask] = [pc |-> "created", cancelled |-> FALSE, sweeps |-> 0]]
       ELSE UNCHANGED <<running, cleanup_task, loops>>
    /\ UNCHANGED <<storeVars, apiVars, pc, ret, result, semValue, inputVars, docker, lockVars,
                   imagesPresent, containers, hasContainer, activeContainers, polls, before,
                   execVars, trace, metricVars, fileVars>>

\* stop, lines 62-68: with a task, clear the flag, cancel the task and await
\* it; without a task, nothing.
Stop ==
    /\ lifespan.pc = "idle"
    /\ lifespan.calls < MaxCalls
    /\ IF cleanup_task # NoTask
       THEN /\ running' = FALSE
            /\ loops' = [loops EXCEPT ![cleanup_task].cancelled = TRUE]
            /\ lifespan' = [lifespan EXCEPT !.pc = "stopping", !.calls = @ + 1, !.last = "stop"]
       ELSE /\ lifespan' = [lifespan EXCEPT !.calls = @ + 1, !.last = "stop"]
            /\ UNCHANGED <<running, loops>>
    /\ UNCHANGED <<cleanup_task, storeVars, apiVars, pc, ret, result, semValue, inputVars, docker,
                   lockVars, imagesPresent, containers, hasContainer, activeContainers, polls,
                   before, execVars, trace, metricVars, fileVars>>

\* stop, lines 68-72: the awaited task is done, its CancelledError is
\* swallowed and the task is forgotten.
StopReturn ==
    /\ lifespan.pc = "stopping"
    /\ loops[cleanup_task].pc = "done"
    /\ cleanup_task' = NoTask
    /\ lifespan' = [lifespan EXCEPT !.pc = "idle"]
    /\ UNCHANGED <<running, loops, storeVars, apiVars, pc, ret, result, semValue, inputVars,
                   docker, lockVars, imagesPresent, containers, hasContainer, activeContainers,
                   polls, before, execVars, trace, metricVars, fileVars>>

\* _cleanup_loop, lines 47-49: the test of the flag at the head of the loop,
\* and the call of cleanup_files when it is set.
WhileRunning(loop, flag) ==
    IF flag THEN [loop EXCEPT !.pc = "cleaning", !.sweeps = @ + 1] ELSE [loop EXCEPT !.pc = "done"]

\* The task is finished, by its CancelledError or by its return.
Done(loop) == [loop EXCEPT !.pc = "done"]

\* _cleanup_loop, lines 45-49: the task gets its first turn. A task that
\* was cancelled before it never runs its body.
LoopStart(t) ==
    /\ loops[t].pc = "created"
    /\ loops' = [loops EXCEPT ![t] = IF loops[t].cancelled THEN Done(loops[t])
                                     ELSE WhileRunning(loops[t], running)]
    /\ UNCHANGED <<cleanup_task, running, lifespan, storeVars, apiVars, pc, ret, result,
                   semValue, inputVars, docker, lockVars, imagesPresent, containers,
                   hasContainer, activeContainers, polls, before, execVars, trace, metricVars,
                   fileVars>>

\* _cleanup_loop, lines 48-53: cleanup_files returned, or raised what the
\* loop logs, and the loop sleeps; a cancelled task gets CancelledError at
\* its await, which no handler of the loop catches.
LoopCleaned(t) ==
    /\ loops[t].pc = "cleaning"
    /\ loops' = [loops EXCEPT ![t] = IF loops[t].cancelled THEN Done(loops[t])
                                     ELSE [loops[t] EXCEPT !.pc = "sleeping"]]
    /\ UNCHANGED <<cleanup_task, running, lifespan, storeVars, apiVars, pc, ret, result,
                   semValue, inputVars, docker, lockVars, imagesPresent, containers,
                   hasContainer, activeContainers, polls, before, execVars, trace, metricVars,
                   fileVars>>

\* _cleanup_loop, lines 47 and 53: the sleep is over and the flag is tested
\* again, or the sleep was cancelled.
LoopWake(t) ==
    /\ loops[t].pc = "sleeping"
    /\ loops[t].cancelled \/ loops[t].sweeps < MaxSweeps
    /\ loops' = [loops EXCEPT ![t] = IF loops[t].cancelled THEN Done(loops[t])
                                     ELSE WhileRunning(loops[t], running)]
    /\ UNCHANGED <<cleanup_task, running, lifespan, storeVars, apiVars, pc, ret, result,
                   semValue, inputVars, docker, lockVars, imagesPresent, containers,
                   hasContainer, activeContainers, polls, before, execVars, trace, metricVars,
                   fileVars>>

\* The cleanup service under one caller that starts and stops it in any
\* order, each call after the one before it has returned.
InitCleanup == InitAll /\ interp = QuietRuns /\ logged = {} /\ hint = NoHint /\ call = NoCall

NextCleanup ==
    \/ Start
    \/ Stop
    \/ StopReturn
    \/ \E t \in TaskIds : LoopStart(t) \/ LoopCleaned(t) \/ LoopWake(t)

SpecCleanup == InitCleanup /\ [][NextCleanup]_vars

\* -------------------------------------------------------------- properties
\* The files a result reports, as paths of the session directory.
Reported(e) == {result[e].files[i].filepath.rel_path : i \in 1..Len(result[e].files)}

\* The paths the interpreter of the call operated on.
Touched(e) == {oplog[e][i].path : i \in 1..Len(oplog[e])}

\* The files the call created or whose bytes it changed.
CreatedOrChanged(e) ==
    {p \in Paths : /\ fs[session[e]][p].exists
                   /\ \/ ~fs0[e][p].exists
                      \/ fs0[e][p].content # fs[session[e]][p].content}

Successful(e) == pc[e] = "returned" /\ result[e].status = "ok"

\* The calls between the creation of their container and the end of its teardown.
Admitted == {e \in Execs : hasContainer[e] /\ pc[e] # "returned"}

\* C1: with more calls submitted at once than MAX_CONCURRENT_CONTAINERS, at
\* every instant at most MAX_CONCURRENT_CONTAINERS of them are between the
\* creation and the teardown of their container.
C1_AdmissionBound == Cardinality(Admitted) <= MAX_CONCURRENT_CONTAINERS

\* MAX_CONCURRENT_CONTAINERS calls are admitted and another waits at the semaphore.
C1_Witness ==
    /\ Cardinality(Admitted) = MAX_CONCURRENT_CONTAINERS
    /\ \E e \in Execs : pc[e] = "acquire"

\* C2: under weak fairness of every call, with every runtime call returning
\* or raising, each of the concurrently submitted calls eventually returns,
\* also with more calls than permits and with several waiting on one image lock.
C2_AllReturn == \A e \in Execs : <>(pc[e] = "returned")

\* All calls returned, two of them successfully after waiting on the same image.
C2_Witness ==
    /\ \A e \in Execs : pc[e] = "returned"
    /\ \E e1, e2 \in Execs :
         /\ e1 # e2
         /\ ImageOf(e1) = ImageOf(e2)
         /\ myLock[e1] = myLock[e2]
         /\ result[e1].status = "ok"
         /\ result[e2].status = "ok"

\* C3: when execute has returned, no container it created exists any more,
\* whatever the exit path.
C3_DeletedBeforeReturn ==
    \A e \in Execs : pc[e] = "returned" => \A c \in containers : c.exec # e

\* C4: no exception leaves execute; what the caller gets is a structured
\* result whose status is ok or error, whatever failed.
C4_NoEscape ==
    \A e \in Execs :
        /\ pc[e] # "raised"
        /\ pc[e] = "returned" => result[e].status \in {"ok", "error"}

\* A call returned the generic error from the outer except clause: the
\* client could not be constructed.
C4_Witness ==
    \E e \in Execs :
        /\ pc[e] = "returned"
        /\ result[e] = GenericError
        /\ docker = None
        /\ before[e] = <<>>
        /\ ~hasContainer[e]
        /\ semValue = MAX_CONCURRENT_CONTAINERS

\* C5: at any instant at most one pull is in flight for an image, also when
\* several calls missed the image at once and its lock was created lazily.
C5_SingleFlight ==
    \A i \in Images : Cardinality({e \in Execs : pc[e] = "pull" /\ ImageOf(e) = i}) <= 1

\* One call pulls an image while another, which missed it too, waits on its lock.
C5_Witness ==
    \E e1, e2 \in Execs :
        /\ e1 # e2
        /\ ImageOf(e1) = ImageOf(e2)
        /\ pc[e1] = "pull"
        /\ pc[e2] = "lockwait"

\* C6: the metrics map never holds more than MAX_CONCURRENT_CONTAINERS
\* entries, whatever the outcome of each teardown.
C6_MetricsBound == Cardinality(activeContainers) <= MAX_CONCURRENT_CONTAINERS

\* C7: when the interpreter exited with a non-zero code, execute returns
\* stdout "", stderr the decoded captured output, status error and no files,
\* also when the interpreter wrote files before it failed.
C7_NonZeroExit ==
    \A e \in Execs :
        (pc[e] = "returned" /\ observedExit[e] \notin {-1, 0}) =>
            /\ result[e].stdout = EmptyString
            /\ result[e].stderr = Text(CleanOutput(captured[e]))
            /\ result[e].status = "error"
            /\ result[e].files = <<>>

\* A call returned after an interpreter that printed, wrote a file that is
\* still there and exited non-zero.
C7_Witness ==
    \E e \in Execs :
        /\ pc[e] = "returned"
        /\ observedExit[e] = 1
        /\ CleanOutput(captured[e]) # <<>>
        /\ \E p \in Touched(e) : fs[session[e]][p].exists /\ ~fs0[e][p].exists

\* C8: every file a successful call reports exists in the session directory
\* and is absent from the pre-execution snapshot or has another content hash
\* than there.
C8_ReportedChangedByHash ==
    \A e \in Execs :
        Successful(e) =>
            \A p \in Reported(e) :
                /\ fs[session[e]][p].exists
                /\ \/ p \notin DOMAIN before[e]
                   \/ Md5(fs[session[e]][p].content) # before[e][p].md5_hash

\* C9: a successful call whose interpreter only rewrote tracked files with
\* the bytes they already had reports no file.
C9_IdenticalRewrite ==
    \A e \in Execs :
        ( /\ Successful(e)
          /\ oplog[e] # <<>>
          /\ \A i \in 1..Len(oplog[e]) :
                /\ oplog[e][i].op = "write"
                /\ oplog[e][i].same
                /\ oplog[e][i].path \in DOMAIN before[e] )
        => result[e].files = <<>>

C11_ListedSuperset ==
    \A f \in returnedFiles : \E r \in ListFiles(dbFiles, f.session_id) : r.id = f.id

\* C12: the store holds one row per (session_id, filename); its created_at
\* is the time the row was inserted and its last_modified the time of the
\* most recent write to it.
C12_OneRowPerKey ==
    /\ \A r1, r2 \in dbFiles : KeyOf(r1) = KeyOf(r2) => r1 = r2
    /\ \A r \in dbFiles :
          /\ r.created_at = written[KeyOf(r)].first
          /\ r.last_modified = written[KeyOf(r)].last

\* A second upsert of a key, later than the first, has just returned.
C12_Witness ==
    /\ reply.op = "add_file"
    /\ reply.raised = None
    /\ \E r \in dbFiles :
          /\ r.id = reply.data.id
          /\ r.created_at < r.last_modified

\* C13: when an upsert has returned, get_file with the session and the id of
\* its record answers a row with exactly the eight values of the record (the
\* upsert ran with no other write to its key between its SELECT and its write).
C13_UpsertThenGet ==
    (reply.op = "add_file" /\ reply.raised = None /\ ~reply.stale) =>
        {RecordOf(r) : r \in GetFileRows(dbFiles, reply.data.session_id, reply.data.id)}
            = {reply.data}

\* An upsert that replaced the record of an existing key has just returned.
C13_Witness ==
    /\ reply.op = "add_file"
    /\ reply.raised = None
    /\ ~reply.stale
    /\ written[KeyOf(reply.data)].first < written[KeyOf(reply.data)].last
    /\ \E r \in dbFiles : RecordOf(r) = reply.data

\* C14: when delete_file(session_id, file_id) has returned, get_file of the
\* same pair finds nothing; it answered true iff it removed a row, and every
\* row it removed had that session_id and that id.
C14_DeleteThenGet ==
    reply.op = "delete_file" =>
        /\ GetFileRows(dbFiles, reply.session_id, reply.file_id) = {}
        /\ reply.deleted <=> reply.removed # {}
        /\ \A r \in reply.removed :
              r.session_id = reply.session_id /\ r.id = reply.file_id

\* A delete removed a row and left the row of another session in the store.
C14_Witness ==
    /\ reply.op = "delete_file"
    /\ reply.deleted
    /\ \E r \in dbFiles : r.session_id # reply.session_id

\* C15: the rows cleanup_old_files returns are the rows it deleted, under
\* any interleaving with upserts and deletes of other callers.
C15_ReapReturnsDeleted ==
    reply.op = "cleanup_old_files" => reply.value = reply.removed

\* C16: an upsert of a record the table accepts completes without error,
\* also when another upsert of the same key runs at the same time.
C16_UpsertsComplete ==
    (reply.op = "add_file" /\ ~AddFileRaises(reply.data)) => reply.raised = None

Answered == {r \in Reqs : req[r].route = "execute" /\ req[r].pc = "done"}

\* C18: POST /v1/execute answers 200 when lang is py or r and the engine
\* returned a result, answers 400 and does not invoke the engine when lang is
\* not a supported language, and answers 503 only when an exception was
\* raised while the request was handled.
C18_StatusCodes ==
    \A r \in Answered :
        /\ (req[r].lang \in SUPPORTED_LANGUAGES /\ req[r].invoked) => req[r].status_code = 200
        /\ req[r].lang \notin SUPPORTED_LANGUAGES
              => (req[r].status_code = 400 /\ ~req[r].invoked)
        /\ req[r].status_code = 503 => req[r].raised # None

\* C19: an execute request in a supported language that carries no file
\* reference runs, in a session no other request uses and whose directory is
\* empty when the execution starts.
C19_FreshEmptySession ==
    \A r \in Answered :
        (req[r].lang \in SUPPORTED_LANGUAGES /\ req[r].files = <<>>)
            => (req[r].invoked /\ req[r].fresh /\ req[r].empty)

\* The calls inside "async with self._container_semaphore".
HoldsPermit ==
    {e \in Execs : pc[e] \notin {"start", "closing", "acquire", "returned", "raised"}}

\* C20: a call whose image was absent and whose pull failed has returned,
\* holds no permit of the semaphore, has created no container, and its
\* result has status error and a stderr made of the name of the image and
\* of the error of the pull.
C20_PullFailure ==
    /\ semValue = MAX_CONCURRENT_CONTAINERS - Cardinality(HoldsPermit)
    /\ \A e \in Execs :
          pullError[e] # None =>
              /\ pc[e] = "returned"
              /\ e \notin HoldsPermit
              /\ ~hasContainer[e]
              /\ ContainerId(e) \notin containers
              /\ result[e].status = "error"
              /\ result[e].stderr.arg = <<ImageOf(e), pullError[e]>>

\* The pull of an absent image failed and the call has returned, while the
\* other calls hold every permit.
C20_Witness ==
    \E e \in Execs :
        /\ pullError[e] # None
        /\ pc[e] = "returned"
        /\ ImageOf(e) \notin imagesPresent
        /\ semValue = 0

\* The payloads of a list of frames, one after the other.
RECURSIVE PayloadsOf(_)
PayloadsOf(frames) ==
    IF frames = <<>> THEN <<>> ELSE Head(frames).payload \o PayloadsOf(Tail(frames))

\* The call of _clean_output has ended.
Demuxed == call.op = "_clean_output" /\ call.pc = "returned"

Diffed == call.op = "_find_changed_files" /\ call.pc = "returned"

Places(e, ev) == {i \in DOMAIN trace[e] : trace[e][i] = ev}

Happened(e, ev) == Places(e, ev) # {}

\* Every occurrence of a comes before every occurrence of b.
Precedes(e, a, b) == \A i \in Places(e, a), j \in Places(e, b) : i < j

\* b happened only after some a.
Follows(e, b, a) == \A j \in Places(e, b) : \E i \in Places(e, a) : i < j

\* C21: within one execution the pre-snapshot comes before the container
\* start, the interpreter's exit before the post-snapshot, the post-snapshot
\* before every metadata write of the execution, and every metadata write
\* before the response.
C21_EventOrder ==
    \A e \in Execs :
        /\ Follows(e, "container_start", "pre_snapshot")
        /\ Follows(e, "post_snapshot", "interpreter_exit")
        /\ Follows(e, "metadata_write", "post_snapshot")
        /\ Precedes(e, "metadata_write", "response")
        /\ Precedes(e, "pre_snapshot", "container_start")
        /\ Precedes(e, "interpreter_exit", "post_snapshot")
        /\ Precedes(e, "post_snapshot", "metadata_write")

C21_Witness ==
    \E e \in Execs :
        /\ pc[e] = "returned"
        /\ Happened(e, "metadata_write")
        /\ Happened(e, "response")
        /\ result[e].status = "ok"
        /\ result[e].files # <<>>

\* The delete of the container was attempted: it went through or it raised.
TornDownBefore(e, j) ==
    \E i \in Places(e, "teardown") \cup Places(e, "teardown_failed") : i < j

\* C22: in every execution the permit of the semaphore is acquired after the
\* pre-snapshot and before the image readiness check, and when a container
\* was created the permit is released only after the teardown of the
\* container has been attempted.
C22_PermitSpan ==
    \A e \in Execs :
        /\ Follows(e, "permit_acquired", "pre_snapshot")
        /\ Precedes(e, "pre_snapshot", "permit_acquired")
        /\ Follows(e, "image_check", "permit_acquired")
        /\ Precedes(e, "permit_acquired", "image_check")
        /\ Follows(e, "permit_released", "permit_acquired")
        /\ Cardinality(Places(e, "permit_released")) <= 1
        /\ Happened(e, "container_created")
              => \A j \in Places(e, "permit_released") : TornDownBefore(e, j)
        /\ (hasContainer[e] /\ pc[e] # "returned") => ~Happened(e, "permit_released")

C22_Witness ==
    \E e \in Execs :
        /\ Happened(e, "image_check")
        /\ Happened(e, "container_created")
        /\ Happened(e, "teardown")
        /\ Happened(e, "permit_released")

\* The calls for the image of e.
SameImage(e) == {o \in Execs : ImageOf(o) = ImageOf(e)}

\* C25: when several executions find the same image absent and no pull of it
\* fails, one pull is issued in total; every other of them issues none, and
\* the ones that go on to create their container found the image on their
\* re-check under the lock of the image.
C25_OnePull ==
    \A e \in Execs :
        (\A o \in SameImage(e) : ~Happened(o, "pull_failed"))
            => /\ Cardinality({o \in SameImage(e) : Happened(o, "pull_issued")}) <= 1
               /\ Happened(e, "pulled")
                    => \A o \in SameImage(e) \ {e} :
                          /\ ~Happened(o, "pull_issued")
                          /\ (Happened(o, "image_absent") /\ hasContainer[o])
                                => Happened(o, "image_rechecked")
               /\ Happened(e, "image_rechecked") => ~Happened(e, "pull_issued")
               /\ pc[e] = "pull" => ImageOf(e) \notin imagesPresent

C25_Witness ==
    \E e \in Execs : \E o \in SameImage(e) \ {e} :
        /\ Happened(e, "image_absent") /\ Happened(e, "pulled")
        /\ Happened(o, "image_absent") /\ Happened(o, "image_rechecked")
        /\ hasContainer[o]
        /\ \A x \in SameImage(e) : ~Happened(x, "pull_failed")

\* An exception was raised inside the semaphore and caught by the except
\* clause of lines 511-518.
RaisedInside(e) == Happened(e, "permit_acquired") /\ Happened(e, "exception")

\* C26: a call in which an engine-internal exception was raised after the
\* permit was acquired, the missed start deadline included, returns the
\* generic error result with stdout "" and no files, and the container it had
\* created exists no more.
C26_GenericAndDeleted ==
    \A e \in Execs :
        (pc[e] = "returned" /\ RaisedInside(e)) =>
            /\ result[e] = GenericError
            /\ result[e].stdout = EmptyString
            /\ result[e].files = <<>>
            /\ Happened(e, "container_created") => ContainerId(e) \notin containers

\* The finally block of the call ran with a container to delete.
TeardownRan(e) == Happened(e, "teardown") \/ Happened(e, "teardown_failed")

\* C27: an error raised by the teardown of the container does not change
\* what execute returns: whether the delete went through or raised, the
\* caller gets the value of the return statement the finally block ran under.
C27_TeardownKeepsResult ==
    \A e \in Execs :
        (pc[e] = "returned" /\ TeardownRan(e)) =>
            /\ result[e] = ret[e]
            /\ ~RaisedInside(e) /\ observedExit[e] = 0 => result[e].status = "ok"
            /\ \A i \in DOMAIN result[e].files :
                  [session_id |-> result[e].files[i].session_id,
                   id |-> result[e].files[i].id] \in returnedFiles

C27_Witness ==
    \E e \in Execs :
        /\ pc[e] = "returned"
        /\ Happened(e, "teardown_failed")
        /\ result[e].status = "ok"
        /\ result[e] # GenericError

\* The permission fix-up failed: its exec could not be created, started or
\* read, or chown exited with a non-zero code.
ChownFailed(e) == Happened(e, "chown_failed") \/ Happened(e, "chown_nonzero")

\* Nothing but the permission fix-up raised in the call.
OnlyChownRaised(e) ==
    \A j \in Places(e, "exception") : j > 1 /\ trace[e][j - 1] = "chown_failed"

\* C28: a failure of the permission fix-up is not fatal: when nothing else
\* fails, the interpreter exec of the call still runs and the call returns
\* what the interpreter exec gives, not the generic error.
C28_ChownNotFatal ==
    \A e \in Execs :
        (pc[e] = "returned" /\ ChownFailed(e) /\ OnlyChownRaised(e)) =>
            /\ Happened(e, "interpreter_start")
            /\ result[e] # GenericError

\* C29: once execute has returned, the metrics map holds no entry for the
\* container the call created, whenever the sampler task of the container
\* runs; the sampler writes into entries the map holds and adds none.
C29_NoEntryAfterReturn ==
    /\ usage \subseteq activeContainers
    /\ \A e \in Execs : pc[e] = "returned" => ContainerId(e) \notin activeContainers

\* How often an event happened in the call.
Count(e, ev) == Cardinality(Places(e, ev))

\* No request of the call to the runtime was answered.
Unanswered(e) == ~Happened(e, "image_found") /\ ~Happened(e, "image_absent")

Reaped == call.op = "cleanup_files" /\ call.pc = "returned"

\* C31: whatever the value of CLEANUP_FILE_MAX_AGE, in seconds, cleanup_files
\* returns and deletes no record younger than that age.
C31_NoYoungReaped ==
    Reaped => \A r \in call.value : call.now - r.last_modified > call.max_age

\* C32: every value execute returns has status ok or error; with status
\* error its stdout is "", it lists no file and it has no metrics field;
\* with status ok its stderr is "" and it has a metrics field.
C32_ResultShape ==
    \A e \in Execs :
        pc[e] = "returned" =>
            /\ result[e].status \in {"ok", "error"}
            /\ result[e].status = "error" =>
                  /\ result[e].stdout = EmptyString
                  /\ result[e].files = <<>>
                  /\ ~result[e].metrics
            /\ result[e].status = "ok" =>
                  /\ result[e].stderr = EmptyString
                  /\ result[e].metrics

C32_Witness ==
    \E e \in Execs :
        /\ pc[e] = "returned"
        /\ runs[e] = MaxRuns
        /\ result[e].status = "ok"
        /\ result[e].stdout # EmptyString
        /\ result[e].files # <<>>
        /\ result[e].metrics

\* C33: a call of execute that returns status error has written no record
\* to the metadata store, also when it fails while it registers several
\* changed files.
C33_NoWriteOnError ==
    \A e \in Execs :
        (pc[e] = "returned" /\ result[e].status = "error") => ~Happened(e, "metadata_write")

\* No call of execute is between its entry and its return.
NoneInFlight == \A e \in Execs : pc[e] \in {"start", "returned"}

\* C34: every exit path of execute that acquired the permit of the semaphore
\* gives it back exactly once: a returned call released as often as it
\* acquired, no call released more than it acquired, and whenever no call is
\* in flight the semaphore has MAX_CONCURRENT_CONTAINERS permits.
C34_NoPermitLeak ==
    /\ semValue <= MAX_CONCURRENT_CONTAINERS
    /\ NoneInFlight => semValue = MAX_CONCURRENT_CONTAINERS
    /\ \A e \in Execs :
          /\ Count(e, "permit_acquired") <= 1
          /\ Count(e, "permit_released") <= Count(e, "permit_acquired")
          /\ pc[e] = "returned" => Count(e, "permit_released") = Count(e, "permit_acquired")

C34_Witness ==
    /\ NoneInFlight
    /\ \E e \in Execs :
          /\ pc[e] = "returned"
          /\ runs[e] = MaxRuns
          /\ Happened(e, "exception")
          /\ Happened(e, "teardown_failed")
          /\ Count(e, "permit_released") = 1

\* The execute requests in a supported language that reached the call of the
\* engine.
Handed ==
    {r \in Reqs : /\ req[r].route = "execute"
                  /\ req[r].pc = "done"
                  /\ req[r].lang \in SUPPORTED_LANGUAGES}

\* C37: the session the route hands to the engine is the session of the
\* first file reference of the request whenever it carries one, whether or
\* not its references resolve in the store and whatever session the other
\* references name, and an id no other request uses otherwise; two requests
\* with the same references get the same session.
C37_SessionFromRefs ==
    /\ \A r \in Handed :
          IF req[r].files # <<>>
          THEN req[r].session_id = req[r].files[1].session_id
          ELSE /\ req[r].fresh
               /\ \E n \in 1..NumReqs : req[r].session_id = GeneratedIds[n]
    /\ \A r, q \in Handed :
          (req[r].files = req[q].files /\ req[r].files # <<>>)
              => req[r].session_id = req[q].session_id

C37_Witness ==
    \E r \in Handed :
        /\ Len(req[r].files) = 2
        /\ req[r].files[1].session_id # req[r].files[2].session_id
        /\ req[r].found = <<>>
        /\ req[r].session_id = req[r].files[1].session_id

\* The paths of the files the call has registered.
Registered(e) == {outFiles[e][i].filepath.rel_path : i \in DOMAIN outFiles[e]}

\* The files of the session of the call that earlier calls which returned an
\* error had written.
OrphansOf(e) == {o.rel_path : o \in {x \in orphans : x.session_id = session[e]}}

\* C36: a file that an execution which returned status error wrote to the
\* session directory is registered by a later sequential execution of the
\* session only when that execution operates on the file again.
C36_OrphansStayOut ==
    \A e \in Execs :
        /\ Registered(e) \cap OrphansOf(e) \subseteq Touched(e)
        /\ pc[e] = "returned" => Reported(e) \cap OrphansOf(e) \subseteq Touched(e)

C36_Witness ==
    \E e \in Execs : \E p \in OrphansOf(e), q \in Paths :
        /\ pc[e] = "returned"
        /\ result[e].status = "ok"
        /\ fs[session[e]][p].exists
        /\ ~EndsWithLock(p)
        /\ p \notin Touched(e)
        /\ p \notin Reported(e)
        /\ q \in Reported(e)
        /\ \A r \in dbFiles : r.filepath.rel_path # p

StartCalled == lifespan'.calls = lifespan.calls + 1 /\ lifespan'.last = "start"

StopCalled == lifespan'.calls = lifespan.calls + 1 /\ lifespan'.last = "stop"

StopReturned == lifespan.pc = "stopping" /\ lifespan'.pc = "idle"

C38_OneLoopTask ==
    [][/\ Cardinality(LiveLoops') <= 1
       /\ LiveLoops' \subseteq {cleanup_task'}
       /\ (StartCalled /\ cleanup_task # NoTask) => UNCHANGED <<cleanup_task, running, loops>>
       /\ (StartCalled /\ cleanup_task = NoTask) =>
              /\ cleanup_task' # NoTask
              /\ loops[cleanup_task'].pc = "none"
              /\ LiveLoops' = {cleanup_task'}
              /\ running'
       /\ (StopCalled /\ cleanup_task = NoTask) =>
              /\ UNCHANGED <<cleanup_task, running, loops>>
              /\ lifespan'.pc = "idle"
       /\ (StopCalled /\ cleanup_task # NoTask) =>
              /\ ~running'
              /\ loops'[cleanup_task].cancelled
       /\ StopReturned =>
              /\ cleanup_task' = NoTask
              /\ ~running'
              /\ LiveLoops' = {}]_vars

\* A start after a stop: the first task is finished and the second one is
\* in its call of cleanup_files.
C38_Witness ==
    /\ lifespan.pc = "idle"
    /\ lifespan.last = "start"
    /\ lifespan.calls >= 3
    /\ cleanup_task = 2
    /\ running
    /\ loops[1].pc = "done"
    /\ loops[1].sweeps > 0
    /\ loops[2].pc = "cleaning"

=============================================================================
